---- MODULE Spec2Model ----
(***************************************************************************)
(* A model of go-anyway/framework-elasticsearch: the Config -> Options     *)
(* translation, the client constructor with its connectivity probe, the    *)
(* trace/log decorators and the pass-through document/index operations.    *)
(*                                                                         *)
(* Go values are modelled as follows.                                      *)
(*   pointer      a record with a field nil; fields are read only when     *)
(*                nil = FALSE, as the code reads them only after its nil   *)
(*                check                                                    *)
(*   error        a record [msg, code, body, cause]; NilErr is Go's nil    *)
(*   duration     an integer number of seconds                             *)
(*   JSON text    a sequence of tokens                                     *)
(*   events       the sequence of externally visible steps of one call     *)
(*                (span, log, request, body close), in program order       *)
(***************************************************************************)
EXTENDS Integers, Sequences, FiniteSets, TLC

VARIABLES
    cfg,      \* the *Config the caller holds
    vres,     \* what Config.Validate returned, or NotCalled
    ores,     \* what Config.ToOptions returned, or NotCalled
    opts,     \* the *Options the caller hands to NewElasticsearch
    nres,     \* what NewElasticsearch returned, or NotCalled
    client,   \* the *ElasticsearchClient the operations are called on
    last,     \* the outcome of the last call on client
    twin,     \* the outcome of the same call on a client whose EnableTrace is flipped
    calls,    \* number of calls made so far
    spans,    \* [started, ended]: spans started and ended so far
    wire,     \* [requests, opened, closed]: requests sent, response bodies opened and closed
    procs     \* the calls goroutines are making on client at the same time

vars == <<cfg, vres, ores, opts, nres, client, last, twin, calls, spans, wire, procs>>

configVars == <<cfg, vres, ores, opts, nres>>
clientVars == <<client, last, twin, calls, spans, wire>>

----------------------------------------------------------------------------
(* Bounds and program constants *)

MaxAddrs == 2
MaxCalls == 2
MaxProcs == 2

DefaultTimeout == 30
DefaultMaxRetries == 3
PingTimeout == 5

----------------------------------------------------------------------------
(* Errors *)

NoText == <<>>

NilErr == [msg |-> "", code |-> 0, body |-> NoText, cause |-> ""]

\* fmt.Errorf(msg)
Errorf(msg) == [msg |-> msg, code |-> 0, body |-> NoText, cause |-> ""]

\* fmt.Errorf("addresses[%d] ...", i)
ErrorfIdx(msg, i) == [msg |-> msg, code |-> i, body |-> NoText, cause |-> ""]

\* fmt.Errorf(msg + ": %w", err): the wrapped error's own text is kept as cause
ErrorfWrap(msg, err) == [msg |-> msg, code |-> err.code, body |-> err.body, cause |-> err.msg]

\* fmt.Errorf(msg + ": %s", res.String()): res.String() prints status and body
ErrorfRes(msg, res) == [msg |-> msg, code |-> res.status, body |-> res.body, cause |-> ""]

NotCalled == [called |-> FALSE]

----------------------------------------------------------------------------
(* Config and Options (src/unnamed/part_000) *)

Strs(s) == {"", s}

AddrLists == UNION {[1..n -> {"", "a"}] : n \in 0..MaxAddrs}

\* The four fields no code path of the package reads after translation are drawn
\* together: every one of them takes both of its values, and any two differ somewhere.
Unread ==
    {[EnableTLS |-> FALSE, CACert |-> "",   ReadTimeout |-> 0, WriteTimeout |-> 0],
     [EnableTLS |-> TRUE,  CACert |-> "ca", ReadTimeout |-> 7, WriteTimeout |-> 9],
     [EnableTLS |-> TRUE,  CACert |-> "",   ReadTimeout |-> 7, WriteTimeout |-> 0],
     [EnableTLS |-> FALSE, CACert |-> "ca", ReadTimeout |-> 0, WriteTimeout |-> 9]}

Fields ==
    [nil : {FALSE}, Addresses : AddrLists,
     Username : Strs("u"), Password : Strs("p"), CloudID : Strs("c"), APIKey : Strs("k"),
     DialTimeout : {-1, 0, 5}, MaxRetries : {-1, 0, 5}, EnableTrace : BOOLEAN]

WithUnread(f, u) ==
    [x \in DOMAIN f \cup DOMAIN u |-> IF x \in DOMAIN u THEN u[x] ELSE f[x]]

NilConfig == [nil |-> TRUE]

\* the configs a configuration file can load
Configs ==
    {[x \in DOMAIN f \cup {"Enabled"} |-> IF x = "Enabled" THEN e ELSE f[x]] :
        f \in {WithUnread(g, u) : g \in Fields, u \in Unread}, e \in BOOLEAN}

NilOptions == [nil |-> TRUE]

\* the Options a caller can write as a struct literal
LiteralOptions == {WithUnread(g, u) : g \in Fields, u \in Unread}

\* pkgConfig.Duration.Duration(): the config duration as a time.Duration
Duration(d) == d

\* the index of the first empty address, 0-based as in the error text; -1 if none
FirstEmpty(addrs) ==
    IF \E i \in 1..Len(addrs) : addrs[i] = ""
    THEN (CHOOSE i \in 1..Len(addrs) : addrs[i] = "" /\ \A j \in 1..(i-1) : addrs[j] # "") - 1
    ELSE -1

\* mutant: a disabled config is validated like an enabled one
Validate_IgnoresEnabled(c) ==
    IF c.nil THEN Errorf("elasticsearch config cannot be nil")
    ELSE IF Len(c.Addresses) = 0 THEN Errorf("elasticsearch addresses cannot be empty")
    ELSE IF FirstEmpty(c.Addresses) >= 0
         THEN ErrorfIdx("elasticsearch addresses[%d] cannot be empty", FirstEmpty(c.Addresses))
    ELSE NilErr

\* func (c *Config) Validate() error
Validate(c) ==
    IF c.nil THEN Errorf("elasticsearch config cannot be nil")
    ELSE IF ~c.Enabled THEN NilErr
    ELSE IF Len(c.Addresses) = 0 THEN Errorf("elasticsearch addresses cannot be empty")
    ELSE IF FirstEmpty(c.Addresses) >= 0
         THEN ErrorfIdx("elasticsearch addresses[%d] cannot be empty", FirstEmpty(c.Addresses))
    ELSE NilErr

\* mutant: a zero timeout is passed on as it is
TimeoutOrDefault_NoFallback(d) == Duration(d)

\* lines 71-82: the fallback applied to each of the three timeouts
TimeoutOrDefault(d) == IF Duration(d) = 0 THEN DefaultTimeout ELSE Duration(d)

\* func (c *Config) ToOptions() (*Options, error)
ToOptions(c) ==
    IF Validate(c) # NilErr THEN [opts |-> NilOptions, err |-> Validate(c)]
    ELSE IF ~c.Enabled
         THEN [opts |-> NilOptions, err |-> Errorf("elasticsearch is not enabled")]
    ELSE [opts |-> [nil |-> FALSE,
                    Addresses    |-> c.Addresses,
                    Username     |-> c.Username,
                    Password     |-> c.Password,
                    CloudID      |-> c.CloudID,
                    APIKey       |-> c.APIKey,
                    EnableTLS    |-> c.EnableTLS,
                    CACert       |-> c.CACert,
                    DialTimeout  |-> TimeoutOrDefault(c.DialTimeout),
                    ReadTimeout  |-> TimeoutOrDefault(c.ReadTimeout),
                    WriteTimeout |-> TimeoutOrDefault(c.WriteTimeout),
                    MaxRetries   |-> c.MaxRetries,
                    EnableTrace  |-> c.EnableTrace],
          err |-> NilErr]

----------------------------------------------------------------------------
(* Client construction (src/elasticsearch.go) *)

NilClient == [nil |-> TRUE]

\* the zero elasticsearch.Config
ZeroESConfig ==
    [Addresses |-> <<>>, Username |-> "", Password |-> "", APIKey |-> "", CloudID |-> "",
     MaxRetries |-> 0]

\* mutant: a retry count that is not positive is passed on as it is
RetriesOrDefault_NoFallback(n) == n

\* lines 67-72: the retry count of the config
RetriesOrDefault(n) == IF n > 0 THEN n ELSE DefaultMaxRetries

\* mutant: the CA certificate is handed to the underlying client when TLS is enabled
ESConfig_WithCACert(o) ==
    [Addresses  |-> o.Addresses,
     Username   |-> IF o.Username # "" /\ o.Password # "" THEN o.Username ELSE "",
     Password   |-> IF o.Username # "" /\ o.Password # "" THEN o.Password ELSE "",
     APIKey     |-> IF ~(o.Username # "" /\ o.Password # "") /\ o.APIKey # ""
                    THEN o.APIKey ELSE "",
     CloudID    |-> IF o.CloudID # "" THEN o.CloudID ELSE "",
     MaxRetries |-> RetriesOrDefault(o.MaxRetries),
     CACert     |-> IF o.EnableTLS THEN o.CACert ELSE ""]

\* mutant: the API key is looked at first, the basic credentials only without one
ESConfig_KeyFirst(o) ==
    [Addresses  |-> o.Addresses,
     Username   |-> IF o.APIKey = "" /\ o.Username # "" /\ o.Password # ""
                    THEN o.Username ELSE "",
     Password   |-> IF o.APIKey = "" /\ o.Username # "" /\ o.Password # ""
                    THEN o.Password ELSE "",
     APIKey     |-> o.APIKey,
     CloudID    |-> IF o.CloudID # "" THEN o.CloudID ELSE "",
     MaxRetries |-> RetriesOrDefault(o.MaxRetries)]

\* lines 46-72: the elasticsearch.Config built from the options
ESConfig(o) ==
    [Addresses  |-> o.Addresses,
     Username   |-> IF o.Username # "" /\ o.Password # "" THEN o.Username ELSE "",
     Password   |-> IF o.Username # "" /\ o.Password # "" THEN o.Password ELSE "",
     APIKey     |-> IF ~(o.Username # "" /\ o.Password # "") /\ o.APIKey # ""
                    THEN o.APIKey ELSE "",
     CloudID    |-> IF o.CloudID # "" THEN o.CloudID ELSE "",
     MaxRetries |-> RetriesOrDefault(o.MaxRetries)]

\* What the environment does to one construction: elasticsearch.NewClient rejects
\* the config, or the Info request fails in the transport, or the server answers
\* with a status after a latency.
ProbeEnv(buildOK, transportErr, latency, status) ==
    [buildOK |-> buildOK, transportErr |-> transportErr, latency |-> latency, status |-> status]

ProbeEnvs ==
    {ProbeEnv(FALSE, FALSE, 0, 200), ProbeEnv(TRUE, TRUE, 0, 200)}
    \cup {ProbeEnv(TRUE, FALSE, l, st) : l \in {0, 10}, st \in {200, 500}}

\* mutant: the probe is issued without a deadline
DeadlineExceeded_NoDeadline(d, latency) == FALSE

\* context.WithTimeout(ctx, d): the request is cut off when no response arrived
\* before the deadline; a deadline of zero or less has passed when the request starts
DeadlineExceeded(d, latency) == d <= 0 \/ latency >= d

IsError(status) == status > 299

\* mutant: the address list is not checked
CheckOptions_NilOnly(o) ==
    IF o.nil THEN Errorf("elasticsearch options cannot be nil") ELSE NilErr

\* lines 38-44: the checks made before anything is built
CheckOptions(o) ==
    IF o.nil THEN Errorf("elasticsearch options cannot be nil")
    ELSE IF Len(o.Addresses) = 0 THEN Errorf("elasticsearch addresses cannot be empty")
    ELSE NilErr

\* mutant: the constructor falls back to 30 seconds for a dial timeout that is not
\* positive
NewElasticsearch_DefaultsDialTimeout(o, env) ==
    LET d == IF o.nil THEN 0 ELSE IF o.DialTimeout <= 0 THEN DefaultTimeout ELSE o.DialTimeout
    IN IF CheckOptions(o) # NilErr
       THEN [client |-> NilClient, events |-> <<>>, escfg |-> ZeroESConfig,
             err |-> CheckOptions(o)]
       ELSE IF ~env.buildOK
       THEN [client |-> NilClient, events |-> <<"NewClient">>,
             escfg |-> ESConfig(o),
             err |-> ErrorfWrap("failed to create elasticsearch client", Errorf("build"))]
       ELSE IF env.transportErr \/ DeadlineExceeded(d, env.latency)
       THEN [client |-> NilClient, events |-> <<"NewClient", "Info", "cancel">>,
             escfg |-> ESConfig(o),
             err |-> ErrorfWrap("failed to connect to elasticsearch",
                                IF env.transportErr THEN Errorf("transport")
                                ELSE Errorf("context deadline exceeded"))]
       ELSE IF IsError(env.status)
       THEN [client |-> NilClient,
             events |-> <<"NewClient", "Info", "response", "Body.Close", "cancel">>,
             escfg |-> ESConfig(o),
             err |-> ErrorfRes("elasticsearch info error",
                               [status |-> env.status, body |-> NoText])]
       ELSE [client |-> [nil |-> FALSE, client |-> [nil |-> FALSE, cfg |-> ESConfig(o)],
                         EnableTrace |-> o.EnableTrace],
             events |-> <<"NewClient", "Info", "response", "Body.Close", "cancel">>,
             escfg |-> ESConfig(o),
             err |-> NilErr]

\* func NewElasticsearch(opts *Options) (*ElasticsearchClient, error)
NewElasticsearch(o, env) ==
    IF CheckOptions(o) # NilErr
    THEN [client |-> NilClient, events |-> <<>>, escfg |-> ZeroESConfig, err |-> CheckOptions(o)]
    ELSE IF ~env.buildOK
    THEN [client |-> NilClient, events |-> <<"NewClient">>,
          escfg |-> ESConfig(o),
          err |-> ErrorfWrap("failed to create elasticsearch client", Errorf("build"))]
    ELSE IF env.transportErr \/ DeadlineExceeded(o.DialTimeout, env.latency)
    THEN [client |-> NilClient, events |-> <<"NewClient", "Info", "cancel">>,
          escfg |-> ESConfig(o),
          err |-> ErrorfWrap("failed to connect to elasticsearch",
                             IF env.transportErr THEN Errorf("transport")
                             ELSE Errorf("context deadline exceeded"))]
    ELSE IF IsError(env.status)
    THEN [client |-> NilClient,
          events |-> <<"NewClient", "Info", "response", "Body.Close", "cancel">>,
          escfg |-> ESConfig(o),
          err |-> ErrorfRes("elasticsearch info error", [status |-> env.status, body |-> NoText])]
    ELSE [client |-> [nil |-> FALSE, client |-> [nil |-> FALSE, cfg |-> ESConfig(o)],
                      EnableTrace |-> o.EnableTrace],
          events |-> <<"NewClient", "Info", "response", "Body.Close", "cancel">>,
          escfg |-> ESConfig(o),
          err |-> NilErr]

----------------------------------------------------------------------------
(* Go values and JSON (encoding/json as the operations use it) *)

\* a scalar value: <<type, text>>
StrV(s) == <<"string", s>>
NumV(n) == <<"float64", n>>
ChanV == <<"chan", "">>

EmptyKV == [k \in {} |-> StrV("")]

\* a map[string]interface{}: nil, or its entries
NilMap == [nil |-> TRUE, kv |-> EmptyKV]
MapOf(kv) == [nil |-> FALSE, kv |-> kv]

\* JSON tokens: <<kind, text>>
LBrace == <<"punct", "{">>
RBrace == <<"punct", "}">>
Colon == <<"punct", ":">>
Comma == <<"punct", ",">>
Null == <<"null", "">>
StrT(s) == <<"str", s>>
NumT(n) == <<"num", n>>
Junk == <<"junk", "not json">>

\* json.Marshal writes the keys of a map in sorted order
KeyOrder == <<"count", "doc", "error", "query", "script", "title">>

SortedKeys(kv) == SelectSeq(KeyOrder, LAMBDA k : k \in DOMAIN kv)

Lit(v) == IF v[1] = "string" THEN StrT(v[2]) ELSE NumT(v[2])

RECURSIVE Members(_, _)
Members(kv, ks) ==
    IF ks = <<>> THEN <<>>
    ELSE <<StrT(Head(ks)), Colon, Lit(kv[Head(ks)])>>
         \o (IF Tail(ks) = <<>> THEN <<>> ELSE <<Comma>> \o Members(kv, Tail(ks)))

\* json.Marshal of a map[string]interface{}: [ok, text]; a channel cannot be encoded
Marshal(m) ==
    IF m.nil THEN [ok |-> TRUE, text |-> <<Null>>]
    ELSE IF \E k \in DOMAIN m.kv : m.kv[k] = ChanV THEN [ok |-> FALSE, text |-> NoText]
    ELSE [ok |-> TRUE, text |-> <<LBrace>> \o Members(m.kv, SortedKeys(m.kv)) \o <<RBrace>>]

MarshalErr == Errorf("json: unsupported type")

\* the members of an object, read from the token after a "{" or a ","
RECURSIVE ParseMembers(_, _)
ParseMembers(toks, kv) ==
    IF Len(toks) < 4 \/ toks[1][1] # "str" \/ toks[2] # Colon \/ toks[3][1] \notin {"str", "num"}
    THEN [ok |-> FALSE, kv |-> EmptyKV]
    ELSE LET k == toks[1][2]
             v == IF toks[3][1] = "str" THEN StrV(toks[3][2]) ELSE NumV(toks[3][2])
             kv2 == [x \in DOMAIN kv \cup {k} |-> IF x = k THEN v ELSE kv[x]]
         IN IF toks[4] = RBrace
            THEN [ok |-> Len(toks) = 4, kv |-> kv2]
            ELSE IF toks[4] = Comma THEN ParseMembers(SubSeq(toks, 5, Len(toks)), kv2)
            ELSE [ok |-> FALSE, kv |-> EmptyKV]

\* json.NewDecoder(body).Decode(&result), result a map[string]interface{}: [ok, val]
Decode(text) ==
    IF text = <<Null>> THEN [ok |-> TRUE, val |-> NilMap]
    ELSE IF text = <<LBrace, RBrace>> THEN [ok |-> TRUE, val |-> MapOf(EmptyKV)]
    ELSE IF Len(text) >= 1 /\ text[1] = LBrace
    THEN LET p == ParseMembers(Tail(text), EmptyKV)
         IN IF p.ok THEN [ok |-> TRUE, val |-> MapOf(p.kv)] ELSE [ok |-> FALSE, val |-> NilMap]
    ELSE [ok |-> FALSE, val |-> NilMap]

DecodeErr == Errorf("invalid character")

\* whether a text is one JSON value (what encoding a json.RawMessage checks)
ValidJSON(text) ==
    \/ Len(text) = 1 /\ text[1][1] \in {"null", "str", "num"}
    \/ Decode(text).ok

----------------------------------------------------------------------------
(* Requests, responses and call outcomes *)

\* context.Context: whether it carries a span, and its deadline if it has one
Background == [span |-> FALSE, hasDeadline |-> FALSE, timeout |-> 0]

\* context.WithTimeout(ctx, d) of a context without a deadline
WithTimeout(ctx, d) == [ctx EXCEPT !.hasDeadline = TRUE, !.timeout = d]

Contexts ==
    {[c EXCEPT !.span = sp] : c \in {Background, WithTimeout(Background, PingTimeout)},
                              sp \in BOOLEAN}

\* the answer of the transport to a request
Fails(f) == [fail |-> f, status |-> 0, body |-> NoText, latency |-> 0]
Responds(status, body) == [fail |-> "", status |-> status, body |-> body, latency |-> 0]

\* the same answer, arriving after lat seconds
Delayed(env, lat) == [env EXCEPT !.latency = lat]

\* req.Do(ctx, c.client): a request whose context has a deadline is cut off when the
\* answer has not arrived by then
Transport(ctx, env) ==
    IF env.fail = "" /\ ctx.hasDeadline /\ DeadlineExceeded(ctx.timeout, env.latency)
    THEN [fail |-> "context deadline exceeded", status |-> 0, body |-> NoText,
          latency |-> env.latency]
    ELSE env

\* an esapi request as it is handed to the transport
Request(api, index, id, hasBody, body, refresh) ==
    [api |-> api, index |-> index, id |-> id, hasBody |-> hasBody, body |-> body,
     refresh |-> refresh]

\* results: none, a map, a bool or an int64
NilHandle == [nil |-> TRUE]

NoResult == [kind |-> "none", map |-> NilMap, bool |-> FALSE, n |-> 0, h |-> NilHandle]
MapResult(m) == [kind |-> "map", map |-> m, bool |-> FALSE, n |-> 0, h |-> NilHandle]
BoolResult(b) == [kind |-> "bool", map |-> NilMap, bool |-> b, n |-> 0, h |-> NilHandle]
IntResult(n) == [kind |-> "int64", map |-> NilMap, bool |-> FALSE, n |-> n, h |-> NilHandle]
HandleResult(h) == [kind |-> "handle", map |-> NilMap, bool |-> FALSE, n |-> 0, h |-> h]

\* what a handler did: its results, its steps and the requests it handed over
Out(result, err, events, reqs) ==
    [result |-> result, err |-> err, events |-> events, reqs |-> reqs]

Occurs(events, e) == Cardinality({i \in 1..Len(events) : events[i] = e})

----------------------------------------------------------------------------
(* The trace/log decorators (src/unnamed/part_001) *)

NoSpan == [attrs |-> {}, status |-> "none"]

\* what a call of a client method did: a handler's outcome plus the span and the log
\* records of the decorator
Traced(h, events, span, log) ==
    [result |-> h.result, err |-> h.err, events |-> events, reqs |-> h.reqs,
     span |-> span, log |-> log]

\* a method that does not go through a decorator
Plain(h) == Traced(h, h.events, NoSpan, <<>>)

\* pkgtrace.StartSpan: the context that carries the new span
WithSpan(ctx) == [ctx EXCEPT !.span = TRUE]

\* mutant: span.End is called at the end of the success branch, not deferred
executeWithTrace_EndOnSuccess(ctx, operation, index, documentID, enableTrace, handler) ==
    LET hctx == IF enableTrace THEN WithSpan(ctx) ELSE ctx
        h == handler[hctx]
        fields == {<<"operation", operation>>, <<"index", index>>,
                   <<"document_id", documentID>>, <<"duration", "duration">>}
        attrs == {<<"db.system", "elasticsearch">>, <<"db.name", index>>,
                  <<"db.operation", operation>>, <<"db.document_id", documentID>>}
        start == <<"time.Now">> \o (IF enableTrace THEN <<"StartSpan">> ELSE <<>>)
        run == <<"handler">> \o h.events \o <<"time.Since">>
        end == IF enableTrace THEN <<"span.End">> ELSE <<>>
    IN IF h.err # NilErr
       THEN Traced(Out(NoResult, h.err, <<>>, h.reqs),
                   start \o run \o <<"log.Error">>
                     \o (IF enableTrace
                         THEN <<"span.SetStatus", "span.RecordError", "span.SetAttributes">>
                         ELSE <<>>),
                   IF enableTrace
                   THEN [attrs |-> attrs \cup {<<"db.status", "error">>, <<"db.error", h.err.msg>>},
                         status |-> "Error"]
                   ELSE NoSpan,
                   <<[level |-> "error", fields |-> fields \cup {<<"error", h.err.msg>>}]>>)
       ELSE Traced(Out(NoResult, h.err, <<>>, h.reqs),
                   start \o run \o <<"log.Info">>
                     \o (IF enableTrace THEN <<"span.SetStatus", "span.SetAttributes">> ELSE <<>>)
                     \o end,
                   IF enableTrace
                   THEN [attrs |-> attrs \cup {<<"db.status", "success">>,
                                               <<"db.duration_ms", "duration">>},
                         status |-> "Ok"]
                   ELSE NoSpan,
                   <<[level |-> "info", fields |-> fields]>>)

\* func executeWithTrace(ctx, operation, index, documentID, enableTrace, handler) error
\* handler maps the context it is called with to what it does and returns
executeWithTrace(ctx, operation, index, documentID, enableTrace, handler) ==
    LET hctx == IF enableTrace THEN WithSpan(ctx) ELSE ctx
        h == handler[hctx]
        fields == {<<"operation", operation>>, <<"index", index>>,
                   <<"document_id", documentID>>, <<"duration", "duration">>}
        attrs == {<<"db.system", "elasticsearch">>, <<"db.name", index>>,
                  <<"db.operation", operation>>, <<"db.document_id", documentID>>}
        start == <<"time.Now">> \o (IF enableTrace THEN <<"StartSpan">> ELSE <<>>)
        run == <<"handler">> \o h.events \o <<"time.Since">>
        end == IF enableTrace THEN <<"span.End">> ELSE <<>>
    IN IF h.err # NilErr
       THEN Traced(Out(NoResult, h.err, <<>>, h.reqs),
                   start \o run \o <<"log.Error">>
                     \o (IF enableTrace
                         THEN <<"span.SetStatus", "span.RecordError", "span.SetAttributes">>
                         ELSE <<>>)
                     \o end,
                   IF enableTrace
                   THEN [attrs |-> attrs \cup {<<"db.status", "error">>, <<"db.error", h.err.msg>>},
                         status |-> "Error"]
                   ELSE NoSpan,
                   <<[level |-> "error", fields |-> fields \cup {<<"error", h.err.msg>>}]>>)
       ELSE Traced(Out(NoResult, h.err, <<>>, h.reqs),
                   start \o run \o <<"log.Info">>
                     \o (IF enableTrace THEN <<"span.SetStatus", "span.SetAttributes">> ELSE <<>>)
                     \o end,
                   IF enableTrace
                   THEN [attrs |-> attrs \cup {<<"db.status", "success">>,
                                               <<"db.duration_ms", "duration">>},
                         status |-> "Ok"]
                   ELSE NoSpan,
                   <<[level |-> "info", fields |-> fields]>>)

\* mutant: the handler's result is returned together with its error
queryWithTrace_KeepsResult(ctx, operation, index, enableTrace, handler) ==
    LET hctx == IF enableTrace THEN WithSpan(ctx) ELSE ctx
        h == handler[hctx]
        zero == MapResult(NilMap)
        fields == {<<"operation", operation>>, <<"index", index>>, <<"duration", "duration">>}
        attrs == {<<"db.system", "elasticsearch">>, <<"db.name", index>>,
                  <<"db.operation", operation>>}
        start == <<"time.Now">> \o (IF enableTrace THEN <<"StartSpan">> ELSE <<>>)
        run == <<"handler">> \o h.events \o <<"time.Since">>
        end == IF enableTrace THEN <<"span.End">> ELSE <<>>
    IN IF h.err # NilErr
       THEN Traced(Out(h.result, h.err, <<>>, h.reqs),
                   start \o run \o <<"log.Error">>
                     \o (IF enableTrace
                         THEN <<"span.SetStatus", "span.RecordError", "span.SetAttributes">>
                         ELSE <<>>)
                     \o end,
                   IF enableTrace
                   THEN [attrs |-> attrs \cup {<<"db.status", "error">>, <<"db.error", h.err.msg>>},
                         status |-> "Error"]
                   ELSE NoSpan,
                   <<[level |-> "error", fields |-> fields \cup {<<"error", h.err.msg>>}]>>)
       ELSE Traced(Out(h.result, NilErr, <<>>, h.reqs),
                   start \o run \o <<"log.Info">>
                     \o (IF enableTrace THEN <<"span.SetStatus", "span.SetAttributes">> ELSE <<>>)
                     \o end,
                   IF enableTrace
                   THEN [attrs |-> attrs \cup {<<"db.status", "success">>,
                                               <<"db.duration_ms", "duration">>},
                         status |-> "Ok"]
                   ELSE NoSpan,
                   <<[level |-> "info", fields |-> fields]>>)

\* func queryWithTrace(ctx, operation, index, enableTrace, handler) (map, error)
queryWithTrace(ctx, operation, index, enableTrace, handler) ==
    LET hctx == IF enableTrace THEN WithSpan(ctx) ELSE ctx
        h == handler[hctx]
        zero == MapResult(NilMap)
        fields == {<<"operation", operation>>, <<"index", index>>, <<"duration", "duration">>}
        attrs == {<<"db.system", "elasticsearch">>, <<"db.name", index>>,
                  <<"db.operation", operation>>}
        start == <<"time.Now">> \o (IF enableTrace THEN <<"StartSpan">> ELSE <<>>)
        run == <<"handler">> \o h.events \o <<"time.Since">>
        end == IF enableTrace THEN <<"span.End">> ELSE <<>>
    IN IF h.err # NilErr
       THEN Traced(Out(zero, h.err, <<>>, h.reqs),
                   start \o run \o <<"log.Error">>
                     \o (IF enableTrace
                         THEN <<"span.SetStatus", "span.RecordError", "span.SetAttributes">>
                         ELSE <<>>)
                     \o end,
                   IF enableTrace
                   THEN [attrs |-> attrs \cup {<<"db.status", "error">>, <<"db.error", h.err.msg>>},
                         status |-> "Error"]
                   ELSE NoSpan,
                   <<[level |-> "error", fields |-> fields \cup {<<"error", h.err.msg>>}]>>)
       ELSE Traced(Out(h.result, NilErr, <<>>, h.reqs),
                   start \o run \o <<"log.Info">>
                     \o (IF enableTrace THEN <<"span.SetStatus", "span.SetAttributes">> ELSE <<>>)
                     \o end,
                   IF enableTrace
                   THEN [attrs |-> attrs \cup {<<"db.status", "success">>,
                                               <<"db.duration_ms", "duration">>},
                         status |-> "Ok"]
                   ELSE NoSpan,
                   <<[level |-> "info", fields |-> fields]>>)

----------------------------------------------------------------------------
(* The operations of the client (src/elasticsearch.go).  env is the answer  *)
(* of the transport to the request: env.fail is the transport error ("" if  *)
(* none), env.status and env.body the response otherwise.                   *)

\* mutant: Close refuses a client without a handle
Close_ChecksHandle(c) ==
    IF c.client.nil
    THEN Plain(Out(NoResult, Errorf("elasticsearch client is not initialized"), <<>>, <<>>))
    ELSE Plain(Out(NoResult, NilErr, <<>>, <<>>))

\* func (c *ElasticsearchClient) Close() error
Close(c) == Plain(Out(NoResult, NilErr, <<>>, <<>>))

\* func (c *ElasticsearchClient) GetClient() *elasticsearch.Client
GetClient(c) == Plain(Out(HandleResult(c.client), NilErr, <<>>, <<>>))

\* func (c *ElasticsearchClient) Ping(ctx context.Context) error
Ping(c, ctx, env) ==
    LET req == Request("Ping", "", "", FALSE, NoText, "")
        res == Transport(ctx, env)
    IN IF c.client.nil
       THEN Plain(Out(NoResult, Errorf("elasticsearch client is not initialized"), <<>>, <<>>))
       ELSE IF res.fail # ""
       THEN Plain(Out(NoResult, ErrorfWrap("failed to ping elasticsearch", Errorf(res.fail)),
                      <<"req.Do">>, <<req>>))
       ELSE IF IsError(res.status)
       THEN Plain(Out(NoResult, ErrorfRes("elasticsearch ping error", res),
                      <<"req.Do", "response", "Body.Close">>, <<req>>))
       ELSE Plain(Out(NoResult, NilErr, <<"req.Do", "response", "Body.Close">>, <<req>>))

\* mutant: the ping of IsConnected runs without a deadline
IsConnected_NoDeadline(c, env) ==
    IF c.client.nil
    THEN Plain(Out(BoolResult(FALSE), NilErr, <<>>, <<>>))
    ELSE LET p == Ping(c, Background, env)
         IN Plain(Out(BoolResult(p.err = NilErr), NilErr, p.events \o <<"cancel">>, p.reqs))

\* func (c *ElasticsearchClient) IsConnected() bool
IsConnected(c, env) ==
    IF c.client.nil
    THEN Plain(Out(BoolResult(FALSE), NilErr, <<>>, <<>>))
    ELSE LET p == Ping(c, WithTimeout(Background, PingTimeout), env)
         IN Plain(Out(BoolResult(p.err = NilErr), NilErr, p.events \o <<"cancel">>, p.reqs))

\* mutant: a string body goes through json.Marshal like any other value and is sent
\* as one JSON string
index_QuotesStrings(c, ctx, idx, documentID, body, env) ==
    LET m == IF body.kind = "bytes" THEN [ok |-> TRUE, text |-> body.text]
             ELSE IF body.kind = "string" THEN [ok |-> TRUE, text |-> <<StrT("quoted")>>]
             ELSE Marshal(body.val)
        ev == IF body.kind = "bytes" THEN <<>> ELSE <<"json.Marshal">>
        req == Request("Index", idx, documentID, TRUE, m.text, "true")
    IN IF ~m.ok
       THEN Out(NoResult, ErrorfWrap("failed to marshal document", MarshalErr), ev, <<>>)
       ELSE IF env.fail # ""
       THEN Out(NoResult, ErrorfWrap("failed to index document", Errorf(env.fail)),
                ev \o <<"req.Do">>, <<req>>)
       ELSE IF IsError(env.status)
       THEN Out(NoResult, ErrorfRes("elasticsearch index error", env),
                ev \o <<"req.Do", "response", "Body.Close">>, <<req>>)
       ELSE Out(NoResult, NilErr, ev \o <<"req.Do", "response", "Body.Close">>, <<req>>)

\* func (c *ElasticsearchClient) index(ctx, index, documentID, body) error
index(c, ctx, idx, documentID, body, env) ==
    LET m == IF body.kind \in {"string", "bytes"}
             THEN [ok |-> TRUE, text |-> body.text]
             ELSE Marshal(body.val)
        ev == IF body.kind \in {"string", "bytes"} THEN <<>> ELSE <<"json.Marshal">>
        req == Request("Index", idx, documentID, TRUE, m.text, "true")
    IN IF ~m.ok
       THEN Out(NoResult, ErrorfWrap("failed to marshal document", MarshalErr), ev, <<>>)
       ELSE IF env.fail # ""
       THEN Out(NoResult, ErrorfWrap("failed to index document", Errorf(env.fail)),
                ev \o <<"req.Do">>, <<req>>)
       ELSE IF IsError(env.status)
       THEN Out(NoResult, ErrorfRes("elasticsearch index error", env),
                ev \o <<"req.Do", "response", "Body.Close">>, <<req>>)
       ELSE Out(NoResult, NilErr, ev \o <<"req.Do", "response", "Body.Close">>, <<req>>)

\* mutant: without tracing the internal method is called directly
Index_DirectWhenUntraced(c, ctx, idx, documentID, body, env) ==
    IF c.EnableTrace
    THEN executeWithTrace(ctx, "index", idx, documentID, c.EnableTrace,
                          [cx \in Contexts |-> index(c, cx, idx, documentID, body, env)])
    ELSE Plain(index(c, ctx, idx, documentID, body, env))

\* func (c *ElasticsearchClient) Index(ctx, index, documentID, body) error
Index(c, ctx, idx, documentID, body, env) ==
    executeWithTrace(ctx, "index", idx, documentID, c.EnableTrace,
                     [cx \in Contexts |-> index(c, cx, idx, documentID, body, env)])

\* mutant: the error of Decode is dropped and what was decoded so far returned
get_IgnoresDecodeErr(c, ctx, idx, documentID, env) ==
    LET req == Request("Get", idx, documentID, FALSE, NoText, "")
        d == Decode(env.body)
    IN IF env.fail # ""
       THEN Out(MapResult(NilMap), ErrorfWrap("failed to get document", Errorf(env.fail)),
                <<"req.Do">>, <<req>>)
       ELSE IF IsError(env.status)
       THEN IF env.status = 404
            THEN Out(MapResult(NilMap), Errorf("document not found"),
                     <<"req.Do", "response", "Body.Close">>, <<req>>)
            ELSE Out(MapResult(NilMap), ErrorfRes("elasticsearch get error", env),
                     <<"req.Do", "response", "Body.Close">>, <<req>>)
       ELSE IF ~d.ok
       THEN Out(MapResult(MapOf(EmptyKV)), NilErr,
                <<"req.Do", "response", "Decode", "Body.Close">>, <<req>>)
       ELSE Out(MapResult(d.val), NilErr,
                <<"req.Do", "response", "Decode", "Body.Close">>, <<req>>)

\* func (c *ElasticsearchClient) get(ctx, index, documentID) (map, error)
get(c, ctx, idx, documentID, env) ==
    LET req == Request("Get", idx, documentID, FALSE, NoText, "")
        d == Decode(env.body)
    IN IF env.fail # ""
       THEN Out(MapResult(NilMap), ErrorfWrap("failed to get document", Errorf(env.fail)),
                <<"req.Do">>, <<req>>)
       ELSE IF IsError(env.status)
       THEN IF env.status = 404
            THEN Out(MapResult(NilMap), Errorf("document not found"),
                     <<"req.Do", "response", "Body.Close">>, <<req>>)
            ELSE Out(MapResult(NilMap), ErrorfRes("elasticsearch get error", env),
                     <<"req.Do", "response", "Body.Close">>, <<req>>)
       ELSE IF ~d.ok
       THEN Out(MapResult(NilMap), ErrorfWrap("failed to decode response", DecodeErr),
                <<"req.Do", "response", "Decode", "Body.Close">>, <<req>>)
       ELSE Out(MapResult(d.val), NilErr,
                <<"req.Do", "response", "Decode", "Body.Close">>, <<req>>)

\* func (c *ElasticsearchClient) Get(ctx, index, documentID) (map, error)
Get(c, ctx, idx, documentID, env) ==
    queryWithTrace(ctx, "get", idx, c.EnableTrace,
                   [cx \in Contexts |-> get(c, cx, idx, documentID, env)])

\* mutant: status 404 is reported like any other error status
delete_Generic404(c, ctx, idx, documentID, env) ==
    LET req == Request("Delete", idx, documentID, FALSE, NoText, "true")
    IN IF env.fail # ""
       THEN Out(NoResult, ErrorfWrap("failed to delete document", Errorf(env.fail)),
                <<"req.Do">>, <<req>>)
       ELSE IF IsError(env.status)
       THEN Out(NoResult, ErrorfRes("elasticsearch delete error", env),
                <<"req.Do", "response", "Body.Close">>, <<req>>)
       ELSE Out(NoResult, NilErr, <<"req.Do", "response", "Body.Close">>, <<req>>)

\* func (c *ElasticsearchClient) delete(ctx, index, documentID) error
delete(c, ctx, idx, documentID, env) ==
    LET req == Request("Delete", idx, documentID, FALSE, NoText, "true")
    IN IF env.fail # ""
       THEN Out(NoResult, ErrorfWrap("failed to delete document", Errorf(env.fail)),
                <<"req.Do">>, <<req>>)
       ELSE IF IsError(env.status)
       THEN IF env.status = 404
            THEN Out(NoResult, Errorf("document not found"),
                     <<"req.Do", "response", "Body.Close">>, <<req>>)
            ELSE Out(NoResult, ErrorfRes("elasticsearch delete error", env),
                     <<"req.Do", "response", "Body.Close">>, <<req>>)
       ELSE Out(NoResult, NilErr, <<"req.Do", "response", "Body.Close">>, <<req>>)

\* mutant: Delete calls the internal method without the decorator
Delete_Direct(c, ctx, idx, documentID, env) == Plain(delete(c, ctx, idx, documentID, env))

\* func (c *ElasticsearchClient) Delete(ctx, index, documentID) error
Delete(c, ctx, idx, documentID, env) ==
    executeWithTrace(ctx, "delete", idx, documentID, c.EnableTrace,
                     [cx \in Contexts |-> delete(c, cx, idx, documentID, env)])

\* mutant: the response body is closed after a successful decode only
executeQueryRequest_LeaksOnDecodeError(c, ctx, idx, query, api, operation, env) ==
    LET m == Marshal(query)
        req == Request(api, idx, "", TRUE, m.text, "")
        d == Decode(env.body)
    IN IF ~m.ok
       THEN Out(MapResult(NilMap), ErrorfWrap("failed to marshal query", MarshalErr),
                <<"json.Marshal">>, <<>>)
       ELSE IF env.fail # ""
       THEN Out(MapResult(NilMap), ErrorfWrap("failed to " \o operation, Errorf(env.fail)),
                <<"json.Marshal", "req.Do">>, <<req>>)
       ELSE IF IsError(env.status)
       THEN Out(MapResult(NilMap), ErrorfRes("elasticsearch " \o operation \o " error", env),
                <<"json.Marshal", "req.Do", "response", "Body.Close">>, <<req>>)
       ELSE IF ~d.ok
       THEN Out(MapResult(NilMap), ErrorfWrap("failed to decode response", DecodeErr),
                <<"json.Marshal", "req.Do", "response", "Decode">>, <<req>>)
       ELSE Out(MapResult(d.val), NilErr,
                <<"json.Marshal", "req.Do", "response", "Decode", "Body.Close">>, <<req>>)

\* func (c *ElasticsearchClient) executeQueryRequest(ctx, index, query, reqFunc, operation)
\* api names the request reqFunc builds
executeQueryRequest(c, ctx, idx, query, api, operation, env) ==
    LET m == Marshal(query)
        req == Request(api, idx, "", TRUE, m.text, "")
        d == Decode(env.body)
    IN IF ~m.ok
       THEN Out(MapResult(NilMap), ErrorfWrap("failed to marshal query", MarshalErr),
                <<"json.Marshal">>, <<>>)
       ELSE IF env.fail # ""
       THEN Out(MapResult(NilMap), ErrorfWrap("failed to " \o operation, Errorf(env.fail)),
                <<"json.Marshal", "req.Do">>, <<req>>)
       ELSE IF IsError(env.status)
       THEN Out(MapResult(NilMap), ErrorfRes("elasticsearch " \o operation \o " error", env),
                <<"json.Marshal", "req.Do", "response", "Body.Close">>, <<req>>)
       ELSE IF ~d.ok
       THEN Out(MapResult(NilMap), ErrorfWrap("failed to decode response", DecodeErr),
                <<"json.Marshal", "req.Do", "response", "Decode", "Body.Close">>, <<req>>)
       ELSE Out(MapResult(d.val), NilErr,
                <<"json.Marshal", "req.Do", "response", "Decode", "Body.Close">>, <<req>>)

\* func (c *ElasticsearchClient) search(ctx, index, query) (map, error)
search(c, ctx, idx, query, env) ==
    executeQueryRequest(c, ctx, idx, query, "Search", "search", env)

\* mutant: the span of a search is ended as soon as it is started
Search_EndsSpanEarly(c, ctx, idx, query, env) ==
    LET r == queryWithTrace(ctx, "search", idx, c.EnableTrace,
                            [cx \in Contexts |-> search(c, cx, idx, query, env)])
        ev == r.events
    IN IF c.EnableTrace
       THEN [r EXCEPT !.events = SubSeq(ev, 1, 2) \o <<"span.End">>
                                   \o SubSeq(ev, 3, Len(ev) - 1)]
       ELSE r

\* func (c *ElasticsearchClient) Search(ctx, index, query) (map, error)
Search(c, ctx, idx, query, env) ==
    queryWithTrace(ctx, "search", idx, c.EnableTrace,
                   [cx \in Contexts |-> search(c, cx, idx, query, env)])

\* mutant: the response is read and a failed item makes the call fail
bulk_ChecksItemErrors(c, ctx, body, env) ==
    LET req == Request("Bulk", "", "", TRUE, body, "true")
    IN IF env.fail # ""
       THEN Out(NoResult, ErrorfWrap("failed to bulk", Errorf(env.fail)), <<"req.Do">>, <<req>>)
       ELSE IF IsError(env.status)
       THEN Out(NoResult, ErrorfRes("elasticsearch bulk error", env),
                <<"req.Do", "response", "Body.Close">>, <<req>>)
       ELSE IF \E i \in 1..(Len(env.body) - 2) :
                  /\ env.body[i] = <<"str", "errors">>
                  /\ env.body[i + 2] = <<"bool", "true">>
       THEN Out(NoResult, Errorf("bulk request had failed items"),
                <<"req.Do", "response", "Decode", "Body.Close">>, <<req>>)
       ELSE Out(NoResult, NilErr, <<"req.Do", "response", "Decode", "Body.Close">>, <<req>>)

\* mutant: a request aborted by its context counts as done
bulk_SwallowsContextErr(c, ctx, body, env) ==
    LET req == Request("Bulk", "", "", TRUE, body, "true")
    IN IF env.fail \in {"context canceled", "context deadline exceeded"}
       THEN Out(NoResult, NilErr, <<"req.Do">>, <<req>>)
       ELSE IF env.fail # ""
       THEN Out(NoResult, ErrorfWrap("failed to bulk", Errorf(env.fail)), <<"req.Do">>, <<req>>)
       ELSE IF IsError(env.status)
       THEN Out(NoResult, ErrorfRes("elasticsearch bulk error", env),
                <<"req.Do", "response", "Body.Close">>, <<req>>)
       ELSE Out(NoResult, NilErr, <<"req.Do", "response", "Body.Close">>, <<req>>)

\* func (c *ElasticsearchClient) bulk(ctx, body string) error
bulk(c, ctx, body, env) ==
    LET req == Request("Bulk", "", "", TRUE, body, "true")
    IN IF env.fail # ""
       THEN Out(NoResult, ErrorfWrap("failed to bulk", Errorf(env.fail)), <<"req.Do">>, <<req>>)
       ELSE IF IsError(env.status)
       THEN Out(NoResult, ErrorfRes("elasticsearch bulk error", env),
                <<"req.Do", "response", "Body.Close">>, <<req>>)
       ELSE Out(NoResult, NilErr, <<"req.Do", "response", "Body.Close">>, <<req>>)

\* func (c *ElasticsearchClient) Bulk(ctx, body string) error
Bulk(c, ctx, body, env) ==
    executeWithTrace(ctx, "bulk", "", "", c.EnableTrace,
                     [cx \in Contexts |-> bulk(c, cx, body, env)])

\* mutant: the error of json.Marshal is dropped and the request sent with what it wrote
CreateIndex_IgnoresMarshalErr(c, ctx, idx, settings, env) ==
    LET m == Marshal(settings)
        req == Request("IndicesCreate", idx, "", TRUE, m.text, "")
    IN IF env.fail # ""
       THEN Plain(Out(NoResult, ErrorfWrap("failed to create index", Errorf(env.fail)),
                      <<"json.Marshal", "req.Do">>, <<req>>))
       ELSE IF IsError(env.status)
       THEN Plain(Out(NoResult, ErrorfRes("elasticsearch create index error", env),
                      <<"json.Marshal", "req.Do", "response", "Body.Close">>, <<req>>))
       ELSE Plain(Out(NoResult, NilErr,
                      <<"json.Marshal", "req.Do", "response", "Body.Close">>, <<req>>))

\* func (c *ElasticsearchClient) CreateIndex(ctx, index, settings) error
CreateIndex(c, ctx, idx, settings, env) ==
    LET m == Marshal(settings)
        req == Request("IndicesCreate", idx, "", TRUE, m.text, "")
    IN IF ~m.ok
       THEN Plain(Out(NoResult, ErrorfWrap("failed to marshal settings", MarshalErr),
                      <<"json.Marshal">>, <<>>))
       ELSE IF env.fail # ""
       THEN Plain(Out(NoResult, ErrorfWrap("failed to create index", Errorf(env.fail)),
                      <<"json.Marshal", "req.Do">>, <<req>>))
       ELSE IF IsError(env.status)
       THEN Plain(Out(NoResult, ErrorfRes("elasticsearch create index error", env),
                      <<"json.Marshal", "req.Do", "response", "Body.Close">>, <<req>>))
       ELSE Plain(Out(NoResult, NilErr,
                      <<"json.Marshal", "req.Do", "response", "Body.Close">>, <<req>>))

\* mutant: a missing index counts as deleted
DeleteIndex_NotFoundIsDone(c, ctx, idx, env) ==
    LET req == Request("IndicesDelete", idx, "", FALSE, NoText, "")
    IN IF env.fail # ""
       THEN Plain(Out(NoResult, ErrorfWrap("failed to delete index", Errorf(env.fail)),
                      <<"req.Do">>, <<req>>))
       ELSE IF IsError(env.status) /\ env.status # 404
       THEN Plain(Out(NoResult, ErrorfRes("elasticsearch delete index error", env),
                      <<"req.Do", "response", "Body.Close">>, <<req>>))
       ELSE Plain(Out(NoResult, NilErr, <<"req.Do", "response", "Body.Close">>, <<req>>))

\* func (c *ElasticsearchClient) DeleteIndex(ctx, index) error
DeleteIndex(c, ctx, idx, env) ==
    LET req == Request("IndicesDelete", idx, "", FALSE, NoText, "")
    IN IF env.fail # ""
       THEN Plain(Out(NoResult, ErrorfWrap("failed to delete index", Errorf(env.fail)),
                      <<"req.Do">>, <<req>>))
       ELSE IF IsError(env.status)
       THEN Plain(Out(NoResult, ErrorfRes("elasticsearch delete index error", env),
                      <<"req.Do", "response", "Body.Close">>, <<req>>))
       ELSE Plain(Out(NoResult, NilErr, <<"req.Do", "response", "Body.Close">>, <<req>>))

\* mutant: the error status is checked before the 404
ExistsIndex_StatusFirst(c, ctx, idx, env) ==
    LET req == Request("IndicesExists", idx, "", FALSE, NoText, "")
    IN IF env.fail # ""
       THEN Plain(Out(BoolResult(FALSE), ErrorfWrap("failed to check index", Errorf(env.fail)),
                      <<"req.Do">>, <<req>>))
       ELSE IF IsError(env.status)
       THEN Plain(Out(BoolResult(FALSE), ErrorfRes("elasticsearch exists index error", env),
                      <<"req.Do", "response", "Body.Close">>, <<req>>))
       ELSE IF env.status = 404
       THEN Plain(Out(BoolResult(FALSE), NilErr,
                      <<"req.Do", "response", "Body.Close">>, <<req>>))
       ELSE Plain(Out(BoolResult(TRUE), NilErr,
                      <<"req.Do", "response", "Body.Close">>, <<req>>))

\* func (c *ElasticsearchClient) ExistsIndex(ctx, index) (bool, error)
ExistsIndex(c, ctx, idx, env) ==
    LET req == Request("IndicesExists", idx, "", FALSE, NoText, "")
    IN IF env.fail # ""
       THEN Plain(Out(BoolResult(FALSE), ErrorfWrap("failed to check index", Errorf(env.fail)),
                      <<"req.Do">>, <<req>>))
       ELSE IF env.status = 404
       THEN Plain(Out(BoolResult(FALSE), NilErr,
                      <<"req.Do", "response", "Body.Close">>, <<req>>))
       ELSE IF IsError(env.status)
       THEN Plain(Out(BoolResult(FALSE), ErrorfRes("elasticsearch exists index error", env),
                      <<"req.Do", "response", "Body.Close">>, <<req>>))
       ELSE Plain(Out(BoolResult(TRUE), NilErr,
                      <<"req.Do", "response", "Body.Close">>, <<req>>))

\* mutant: the bytes are written into the envelope without a check
MarshalDoc_NoCheck(bodyBytes, isNil) ==
    IF isNil THEN [ok |-> TRUE, text |-> <<LBrace, StrT("doc"), Colon, Null, RBrace>>]
    ELSE [ok |-> TRUE, text |-> <<LBrace, StrT("doc"), Colon>> \o bodyBytes \o <<RBrace>>]

\* json.Marshal(map[string]interface{}{"doc": json.RawMessage(bodyBytes)}): a nil
\* RawMessage is written as null, any other must hold one JSON value
MarshalDoc(bodyBytes, isNil) ==
    IF isNil THEN [ok |-> TRUE, text |-> <<LBrace, StrT("doc"), Colon, Null, RBrace>>]
    ELSE IF ~ValidJSON(bodyBytes) THEN [ok |-> FALSE, text |-> NoText]
    ELSE [ok |-> TRUE, text |-> <<LBrace, StrT("doc"), Colon>> \o bodyBytes \o <<RBrace>>]

\* func (c *ElasticsearchClient) Update(ctx, index, documentID, body) error
Update(c, ctx, idx, documentID, body, env) ==
    LET m == IF body.kind \in {"string", "bytes"}
             THEN [ok |-> TRUE, text |-> body.text]
             ELSE Marshal(body.val)
        ev == IF body.kind \in {"string", "bytes"} THEN <<>> ELSE <<"json.Marshal">>
        u == MarshalDoc(m.text, body.kind = "bytes" /\ body.nilBytes)
        req == Request("Update", idx, documentID, TRUE, u.text, "true")
    IN IF ~m.ok
       THEN Plain(Out(NoResult, ErrorfWrap("failed to marshal document", MarshalErr), ev, <<>>))
       ELSE IF ~u.ok
       THEN Plain(Out(NoResult, ErrorfWrap("failed to marshal update body", MarshalErr),
                      ev \o <<"json.Marshal">>, <<>>))
       ELSE IF env.fail # ""
       THEN Plain(Out(NoResult, ErrorfWrap("failed to update document", Errorf(env.fail)),
                      ev \o <<"json.Marshal", "req.Do">>, <<req>>))
       ELSE IF IsError(env.status)
       THEN IF env.status = 404
            THEN Plain(Out(NoResult, Errorf("document not found"),
                           ev \o <<"json.Marshal", "req.Do", "response", "Body.Close">>, <<req>>))
            ELSE Plain(Out(NoResult, ErrorfRes("elasticsearch update error", env),
                           ev \o <<"json.Marshal", "req.Do", "response", "Body.Close">>, <<req>>))
       ELSE Plain(Out(NoResult, NilErr,
                      ev \o <<"json.Marshal", "req.Do", "response", "Body.Close">>, <<req>>))

\* mutant: the script is put into updateQuery without the nil check
MarshalUpdateQuery_AlwaysScript(query, script) ==
    LET q == Marshal(query)
        sc == Marshal(script)
    IN IF ~q.ok \/ ~sc.ok THEN [ok |-> FALSE, text |-> NoText]
       ELSE [ok |-> TRUE,
             text |-> <<LBrace, StrT("query"), Colon>> \o q.text
                      \o <<Comma, StrT("script"), Colon>> \o sc.text
                      \o <<RBrace>>]

\* json.Marshal of updateQuery: "query" always, "script" when the script is not nil
MarshalUpdateQuery(query, script) ==
    LET q == Marshal(query)
        sc == Marshal(script)
    IN IF ~q.ok \/ (~script.nil /\ ~sc.ok) THEN [ok |-> FALSE, text |-> NoText]
       ELSE [ok |-> TRUE,
             text |-> <<LBrace, StrT("query"), Colon>> \o q.text
                      \o (IF script.nil THEN <<>> ELSE <<Comma, StrT("script"), Colon>> \o sc.text)
                      \o <<RBrace>>]

\* func (c *ElasticsearchClient) UpdateByQuery(ctx, index, query, script) (map, error)
UpdateByQuery(c, ctx, idx, query, script, env) ==
    LET m == MarshalUpdateQuery(query, script)
        req == Request("UpdateByQuery", idx, "", TRUE, m.text, "")
        d == Decode(env.body)
    IN IF ~m.ok
       THEN Plain(Out(MapResult(NilMap), ErrorfWrap("failed to marshal update query", MarshalErr),
                      <<"json.Marshal">>, <<>>))
       ELSE IF env.fail # ""
       THEN Plain(Out(MapResult(NilMap), ErrorfWrap("failed to update by query", Errorf(env.fail)),
                      <<"json.Marshal", "req.Do">>, <<req>>))
       ELSE IF IsError(env.status)
       THEN Plain(Out(MapResult(NilMap), ErrorfRes("elasticsearch update by query error", env),
                      <<"json.Marshal", "req.Do", "response", "Body.Close">>, <<req>>))
       ELSE IF ~d.ok
       THEN Plain(Out(MapResult(NilMap), ErrorfWrap("failed to decode response", DecodeErr),
                      <<"json.Marshal", "req.Do", "response", "Decode", "Body.Close">>, <<req>>))
       ELSE Plain(Out(MapResult(d.val), NilErr,
                      <<"json.Marshal", "req.Do", "response", "Decode", "Body.Close">>, <<req>>))

\* int64(count) of a decoded JSON number
Int64Of(text) == CHOOSE n \in 0..9 : ToString(n) = text

\* mutant: a response without a numeric count is read as a count of zero
Count_ZeroOnMissing(c, ctx, idx, query, env) ==
    LET m == IF query.nil THEN [ok |-> TRUE, text |-> NoText] ELSE Marshal(query)
        ev == IF query.nil THEN <<>> ELSE <<"json.Marshal">>
        req == Request("Count", idx, "", Len(m.text) > 0, m.text, "")
        d == Decode(env.body)
    IN IF ~m.ok
       THEN Plain(Out(IntResult(0), ErrorfWrap("failed to marshal query", MarshalErr), ev, <<>>))
       ELSE IF env.fail # ""
       THEN Plain(Out(IntResult(0), ErrorfWrap("failed to count", Errorf(env.fail)),
                      ev \o <<"req.Do">>, <<req>>))
       ELSE IF IsError(env.status)
       THEN Plain(Out(IntResult(0), ErrorfRes("elasticsearch count error", env),
                      ev \o <<"req.Do", "response", "Body.Close">>, <<req>>))
       ELSE IF ~d.ok
       THEN Plain(Out(IntResult(0), ErrorfWrap("failed to decode response", DecodeErr),
                      ev \o <<"req.Do", "response", "Decode", "Body.Close">>, <<req>>))
       ELSE IF ~d.val.nil /\ "count" \in DOMAIN d.val.kv /\ d.val.kv["count"][1] = "float64"
       THEN Plain(Out(IntResult(Int64Of(d.val.kv["count"][2])), NilErr,
                      ev \o <<"req.Do", "response", "Decode", "Body.Close">>, <<req>>))
       ELSE Plain(Out(IntResult(0), NilErr,
                      ev \o <<"req.Do", "response", "Decode", "Body.Close">>, <<req>>))

\* func (c *ElasticsearchClient) Count(ctx, index, query) (int64, error)
Count(c, ctx, idx, query, env) ==
    LET m == IF query.nil THEN [ok |-> TRUE, text |-> NoText] ELSE Marshal(query)
        ev == IF query.nil THEN <<>> ELSE <<"json.Marshal">>
        req == Request("Count", idx, "", Len(m.text) > 0, m.text, "")
        d == Decode(env.body)
    IN IF ~m.ok
       THEN Plain(Out(IntResult(0), ErrorfWrap("failed to marshal query", MarshalErr), ev, <<>>))
       ELSE IF env.fail # ""
       THEN Plain(Out(IntResult(0), ErrorfWrap("failed to count", Errorf(env.fail)),
                      ev \o <<"req.Do">>, <<req>>))
       ELSE IF IsError(env.status)
       THEN Plain(Out(IntResult(0), ErrorfRes("elasticsearch count error", env),
                      ev \o <<"req.Do", "response", "Body.Close">>, <<req>>))
       ELSE IF ~d.ok
       THEN Plain(Out(IntResult(0), ErrorfWrap("failed to decode response", DecodeErr),
                      ev \o <<"req.Do", "response", "Decode", "Body.Close">>, <<req>>))
       ELSE IF ~d.val.nil /\ "count" \in DOMAIN d.val.kv /\ d.val.kv["count"][1] = "float64"
       THEN Plain(Out(IntResult(Int64Of(d.val.kv["count"][2])), NilErr,
                      ev \o <<"req.Do", "response", "Decode", "Body.Close">>, <<req>>))
       ELSE Plain(Out(IntResult(0), Errorf("invalid count response format"),
                      ev \o <<"req.Do", "response", "Decode", "Body.Close">>, <<req>>))

\* mutant: DeleteByQuery goes through the decorator like Search
DeleteByQuery_Decorated(c, ctx, idx, query, env) ==
    queryWithTrace(ctx, "delete by query", idx, c.EnableTrace,
                   [cx \in Contexts |->
                      executeQueryRequest(c, cx, idx, query, "DeleteByQuery",
                                          "delete by query", env)])

\* func (c *ElasticsearchClient) DeleteByQuery(ctx, index, query) (map, error)
DeleteByQuery(c, ctx, idx, query, env) ==
    Plain(executeQueryRequest(c, ctx, idx, query, "DeleteByQuery", "delete by query", env))

----------------------------------------------------------------------------
(* The inputs the calls are made with *)

Doc == MapOf([k \in {"title"} |-> StrV("x")])
BadMap == MapOf([k \in {"title"} |-> ChanV])

\* a body argument (interface{}): a string, a []byte or any other value
StringBody(text) == [kind |-> "string", text |-> text, val |-> NilMap, nilBytes |-> FALSE]
BytesBody(text) == [kind |-> "bytes", text |-> text, val |-> NilMap, nilBytes |-> FALSE]
NilBytesBody == [kind |-> "bytes", text |-> NoText, val |-> NilMap, nilBytes |-> TRUE]
ValueBody(v) == [kind |-> "value", text |-> NoText, val |-> v, nilBytes |-> FALSE]
NoBody == [kind |-> "none", text |-> NoText, val |-> NilMap, nilBytes |-> FALSE]

Bodies ==
    {StringBody(Marshal(Doc).text), StringBody(<<Junk>>), StringBody(NoText),
     BytesBody(Marshal(Doc).text), NilBytesBody, ValueBody(Doc), ValueBody(BadMap)}

BulkBodies == {NoText, Marshal(Doc).text}

Queries == {NilMap, Doc, BadMap}

Indices == {"idx"}
DocIDs == {"1"}

Latencies == {0, PingTimeout - 1, PingTimeout}

ErrorBody == Marshal(MapOf([k \in {"error"} |-> StrV("x")])).text

\* the answer to a bulk request some of whose items failed: {"errors":true}
ItemErrorsBody == <<LBrace, StrT("errors"), Colon, <<"bool", "true">>, RBrace>>

BulkEnvs == {Responds(200, ItemErrorsBody)}

ServerEnvs ==
    {Fails("transport"), Fails("context canceled"), Fails("context deadline exceeded")}
    \cup {Responds(200, b) : b \in {Marshal(Doc).text,
                                    Marshal(MapOf([k \in {"count"} |-> NumV("3")])).text,
                                    Marshal(MapOf([k \in {"count"} |-> StrV("x")])).text,
                                    <<Junk>>, <<Null>>}}
    \cup {Responds(st, ErrorBody) : st \in {301, 404, 500}}

\* what a handler handed to a decorator may return
HandlerErrs == {NilErr, Errorf("handler failed")}
ExecHandlers == {Out(NoResult, e, <<"work">>, <<>>) : e \in HandlerErrs}
QueryHandlers == {Out(MapResult(m), e, <<"work">>, <<>>) : m \in {NilMap, Doc}, e \in HandlerErrs}

NoEnv == Fails("")
NoHandler == Out(NoResult, NilErr, <<>>, <<>>)

In(idx, id, body, query, script, env, h) ==
    [index |-> idx, id |-> id, body |-> body, query |-> query, script |-> script,
     env |-> env, h |-> h]

NoIn == In("", "", NoBody, NilMap, NilMap, NoEnv, NoHandler)

Idle == [op |-> "none", in |-> NoIn, out |-> Plain(NoHandler)]

\* the goroutines that call the client, and one that is not inside a call
Goroutines == 1..MaxProcs

IdleProc ==
    [pc |-> "idle", op |-> "none", in |-> NoIn, flag |-> FALSE, handle |-> NilHandle,
     out |-> Plain(NoHandler)]

NoProcs == [g \in Goroutines |-> IdleProc]

----------------------------------------------------------------------------
(* The construction path: a caller loads a config (or has none), validates  *)
(* and converts it, or writes an Options literal, and constructs a client.  *)

InitConfig ==
    /\ cfg \in Configs \cup {NilConfig}
    /\ vres = NotCalled
    /\ ores = NotCalled
    /\ opts = NilOptions
    /\ nres = NotCalled
    /\ client = NilClient
    /\ last = Idle
    /\ twin = Idle
    /\ calls = 0
    /\ spans = [started |-> 0, ended |-> 0]
    /\ wire = [requests |-> 0, opened |-> 0, closed |-> 0]
    /\ procs = NoProcs

CallValidate ==
    /\ vres = NotCalled
    /\ ores = NotCalled
    /\ nres = NotCalled
    /\ vres' = [called |-> TRUE, err |-> Validate(cfg)]
    /\ UNCHANGED <<cfg, ores, opts, nres>>
    /\ UNCHANGED clientVars
    /\ UNCHANGED procs

\* the caller validates the config it loaded before it converts it
CallToOptions ==
    /\ vres.called
    /\ ores = NotCalled
    /\ nres = NotCalled
    /\ ores' = [called |-> TRUE, out |-> ToOptions(cfg)]
    /\ opts' = ores'.out.opts
    /\ UNCHANGED <<cfg, vres, nres>>
    /\ UNCHANGED clientVars
    /\ UNCHANGED procs

\* a caller without a config writes the Options itself
WriteOptions ==
    /\ cfg.nil
    /\ ores = NotCalled
    /\ nres = NotCalled
    /\ opts = NilOptions
    /\ opts' \in LiteralOptions
    /\ UNCHANGED <<cfg, vres, ores, nres>>
    /\ UNCHANGED clientVars
    /\ UNCHANGED procs

CallNewElasticsearch ==
    /\ nres = NotCalled
    /\ ores.called \/ cfg.nil
    /\ \E env \in ProbeEnvs :
           nres' = [called |-> TRUE, env |-> env, out |-> NewElasticsearch(opts, env)]
    /\ client' = nres'.out.client
    /\ UNCHANGED <<cfg, vres, ores, opts>>
    /\ UNCHANGED <<last, twin, calls, spans, wire, procs>>

NextConfig == CallValidate \/ CallToOptions \/ WriteOptions \/ CallNewElasticsearch

SpecConfig == InitConfig /\ [][NextConfig]_vars

----------------------------------------------------------------------------
(* The calls on a constructed client.  A call is one step: the methods are  *)
(* synchronous and return after the response was handled.  No method        *)
(* assigns a field of the client.  Methods that hand a request to the       *)
(* transport are called on clients that hold a handle.                      *)

StartOptions ==
    {[nil |-> FALSE, Addresses |-> <<"a">>, Username |-> "", Password |-> "", CloudID |-> "",
      APIKey |-> "", EnableTLS |-> FALSE, CACert |-> "", DialTimeout |-> 5, ReadTimeout |-> 0,
      WriteTimeout |-> 0, MaxRetries |-> 0, EnableTrace |-> t] : t \in BOOLEAN}

Healthy == ProbeEnv(TRUE, FALSE, 0, 200)

\* &ElasticsearchClient{}: the zero client
ZeroClient == [nil |-> FALSE, client |-> NilHandle, EnableTrace |-> FALSE]

Init ==
    /\ cfg = NilConfig
    /\ vres = NotCalled
    /\ ores = NotCalled
    /\ opts \in StartOptions
    /\ \E env \in ProbeEnvs :
           nres = [called |-> TRUE, env |-> env, out |-> NewElasticsearch(opts, env)]
    /\ client \in ({nres.out.client} \ {NilClient}) \cup {ZeroClient}
    /\ last = Idle
    /\ twin = Idle
    /\ calls = 0
    /\ spans = [started |-> 0, ended |-> 0]
    /\ wire = [requests |-> 0, opened |-> 0, closed |-> 0]
    /\ procs = NoProcs

Flip(c) == [c EXCEPT !.EnableTrace = ~@]

\* mutant: Close drops the handle of the client it is called on
ClientAfter_CloseDropsHandle(op, c) ==
    IF op = "Close" THEN [c EXCEPT !.client = NilHandle] ELSE c

\* the fields of the receiver after a method returned: no method assigns one
ClientAfter(op, c) == c

\* the bookkeeping of one finished call
Done(op, in, out, tw) ==
    /\ last' = [op |-> op, in |-> in, out |-> out]
    /\ twin' = [op |-> op, in |-> in, out |-> tw]
    /\ calls' = calls + 1
    /\ spans' = [started |-> spans.started + Occurs(last'.out.events, "StartSpan"),
                 ended   |-> spans.ended + Occurs(last'.out.events, "span.End")]
    /\ wire' = [requests |-> wire.requests + Len(last'.out.reqs),
                opened   |-> wire.opened + Occurs(last'.out.events, "response"),
                closed   |-> wire.closed + Occurs(last'.out.events, "Body.Close")]
    /\ client' = ClientAfter(op, client)
    /\ UNCHANGED configVars
    /\ UNCHANGED procs

CallClose ==
    /\ calls < MaxCalls
    /\ Done("Close", NoIn, Close(client), Close(Flip(client)))

CallGetClient ==
    /\ calls < MaxCalls
    /\ Done("GetClient", NoIn, GetClient(client), GetClient(Flip(client)))

CallPing ==
    /\ calls < MaxCalls
    /\ \E env \in ServerEnvs :
           Done("Ping", In("", "", NoBody, NilMap, NilMap, env, NoHandler),
                Ping(client, Background, env), Ping(Flip(client), Background, env))

CallIsConnected ==
    /\ calls < MaxCalls
    /\ \E env \in ServerEnvs, lat \in Latencies :
           Done("IsConnected", In("", "", NoBody, NilMap, NilMap, Delayed(env, lat), NoHandler),
                IsConnected(client, Delayed(env, lat)),
                IsConnected(Flip(client), Delayed(env, lat)))

CallIndex ==
    /\ calls < MaxCalls
    /\ ~client.client.nil
    /\ \E idx \in Indices, id \in DocIDs, body \in Bodies, env \in ServerEnvs :
        Done("Index", In(idx, id, body, NilMap, NilMap, env, NoHandler),
             Index(client, Background, idx, id, body, env),
             Index(Flip(client), Background, idx, id, body, env))

CallGet ==
    /\ calls < MaxCalls
    /\ ~client.client.nil
    /\ \E idx \in Indices, id \in DocIDs, env \in ServerEnvs :
        Done("Get", In(idx, id, NoBody, NilMap, NilMap, env, NoHandler),
             Get(client, Background, idx, id, env),
             Get(Flip(client), Background, idx, id, env))

CallDelete ==
    /\ calls < MaxCalls
    /\ ~client.client.nil
    /\ \E idx \in Indices, id \in DocIDs, env \in ServerEnvs :
        Done("Delete", In(idx, id, NoBody, NilMap, NilMap, env, NoHandler),
             Delete(client, Background, idx, id, env),
             Delete(Flip(client), Background, idx, id, env))

CallSearch ==
    /\ calls < MaxCalls
    /\ ~client.client.nil
    /\ \E idx \in Indices, query \in Queries, env \in ServerEnvs :
        Done("Search", In(idx, "", NoBody, query, NilMap, env, NoHandler),
             Search(client, Background, idx, query, env),
             Search(Flip(client), Background, idx, query, env))

CallBulk ==
    /\ calls < MaxCalls
    /\ ~client.client.nil
    /\ \E text \in BulkBodies, env \in ServerEnvs \cup BulkEnvs :
        Done("Bulk", In("", "", StringBody(text), NilMap, NilMap, env, NoHandler),
             Bulk(client, Background, text, env),
             Bulk(Flip(client), Background, text, env))

CallCreateIndex ==
    /\ calls < MaxCalls
    /\ ~client.client.nil
    /\ \E idx \in Indices, settings \in Queries, env \in ServerEnvs :
        Done("CreateIndex", In(idx, "", NoBody, settings, NilMap, env, NoHandler),
             CreateIndex(client, Background, idx, settings, env),
             CreateIndex(Flip(client), Background, idx, settings, env))

CallDeleteIndex ==
    /\ calls < MaxCalls
    /\ ~client.client.nil
    /\ \E idx \in Indices, env \in ServerEnvs :
        Done("DeleteIndex", In(idx, "", NoBody, NilMap, NilMap, env, NoHandler),
             DeleteIndex(client, Background, idx, env),
             DeleteIndex(Flip(client), Background, idx, env))

CallExistsIndex ==
    /\ calls < MaxCalls
    /\ ~client.client.nil
    /\ \E idx \in Indices, env \in ServerEnvs :
        Done("ExistsIndex", In(idx, "", NoBody, NilMap, NilMap, env, NoHandler),
             ExistsIndex(client, Background, idx, env),
             ExistsIndex(Flip(client), Background, idx, env))

CallUpdate ==
    /\ calls < MaxCalls
    /\ ~client.client.nil
    /\ \E idx \in Indices, id \in DocIDs, body \in Bodies, env \in ServerEnvs :
        Done("Update", In(idx, id, body, NilMap, NilMap, env, NoHandler),
             Update(client, Background, idx, id, body, env),
             Update(Flip(client), Background, idx, id, body, env))

CallUpdateByQuery ==
    /\ calls < MaxCalls
    /\ ~client.client.nil
    /\ \E idx \in Indices, query \in Queries, script \in Queries, env \in ServerEnvs :
        Done("UpdateByQuery", In(idx, "", NoBody, query, script, env, NoHandler),
             UpdateByQuery(client, Background, idx, query, script, env),
             UpdateByQuery(Flip(client), Background, idx, query, script, env))

CallCount ==
    /\ calls < MaxCalls
    /\ ~client.client.nil
    /\ \E idx \in Indices, query \in Queries, env \in ServerEnvs :
        Done("Count", In(idx, "", NoBody, query, NilMap, env, NoHandler),
             Count(client, Background, idx, query, env),
             Count(Flip(client), Background, idx, query, env))

CallDeleteByQuery ==
    /\ calls < MaxCalls
    /\ ~client.client.nil
    /\ \E idx \in Indices, query \in Queries, env \in ServerEnvs :
        Done("DeleteByQuery", In(idx, "", NoBody, query, NilMap, env, NoHandler),
             DeleteByQuery(client, Background, idx, query, env),
             DeleteByQuery(Flip(client), Background, idx, query, env))

\* the decorators called with a handler of the package's own choosing
CallExecuteWithTrace ==
    /\ calls < MaxCalls
    /\ \E idx \in Indices, id \in DocIDs, h \in ExecHandlers :
           Done("executeWithTrace", In(idx, id, NoBody, NilMap, NilMap, NoEnv, h),
                executeWithTrace(Background, "op", idx, id, client.EnableTrace,
                                 [cx \in Contexts |-> h]),
                executeWithTrace(Background, "op", idx, id, ~client.EnableTrace,
                                 [cx \in Contexts |-> h]))

CallQueryWithTrace ==
    /\ calls < MaxCalls
    /\ \E idx \in Indices, h \in QueryHandlers :
           Done("queryWithTrace", In(idx, "", NoBody, NilMap, NilMap, NoEnv, h),
                queryWithTrace(Background, "op", idx, client.EnableTrace,
                               [cx \in Contexts |-> h]),
                queryWithTrace(Background, "op", idx, ~client.EnableTrace,
                               [cx \in Contexts |-> h]))

Next ==
    \/ CallClose \/ CallGetClient \/ CallPing \/ CallIsConnected
    \/ CallIndex \/ CallGet \/ CallDelete \/ CallSearch \/ CallBulk
    \/ CallCreateIndex \/ CallDeleteIndex \/ CallExistsIndex
    \/ CallUpdate \/ CallUpdateByQuery \/ CallCount \/ CallDeleteByQuery
    \/ CallExecuteWithTrace \/ CallQueryWithTrace

Spec == Init /\ [][Next]_vars

----------------------------------------------------------------------------
(* Concurrent callers: goroutines that share one constructed client.  A     *)
(* call is split where it reads a field of the client: the wrappers read    *)
(* c.EnableTrace, the internal methods read c.client, and the response      *)
(* arrives after the request was handed over.                               *)

ConcOps == {"Close", "GetClient", "Ping", "Index", "Search"}
ConcIndices == {"idx", "idx2"}
ConcEnvs == {Fails("transport"), Responds(200, Marshal(Doc).text), Responds(500, ErrorBody)}

\* the method op called on client c with the arguments in
CallOf(op, c, in) ==
    CASE op = "Close"     -> Close(c)
      [] op = "GetClient" -> GetClient(c)
      [] op = "Ping"      -> Ping(c, Background, in.env)
      [] op = "Index"     -> Index(c, Background, in.index, in.id, in.body, in.env)
      [] op = "Search"    -> Search(c, Background, in.index, in.query, in.env)

\* the client as a goroutine saw it: the fields it read
Seen(p) == [nil |-> FALSE, client |-> p.handle, EnableTrace |-> p.flag]

InitConc ==
    /\ cfg = NilConfig
    /\ vres = NotCalled
    /\ ores = NotCalled
    /\ opts \in StartOptions
    /\ nres = [called |-> TRUE, env |-> Healthy, out |-> NewElasticsearch(opts, Healthy)]
    /\ client = nres.out.client
    /\ last = Idle
    /\ twin = Idle
    /\ calls = 0
    /\ spans = [started |-> 0, ended |-> 0]
    /\ wire = [requests |-> 0, opened |-> 0, closed |-> 0]
    /\ procs = NoProcs

\* goroutine g calls a method of the client
Begin(g) ==
    /\ calls < MaxCalls
    /\ procs[g].pc = "idle"
    /\ \E op \in ConcOps, idx \in ConcIndices :
          procs' = [procs EXCEPT ![g] =
                      [IdleProc EXCEPT !.pc = "entered", !.op = op,
                                       !.in = In(idx, "1", ValueBody(Doc), Doc, NilMap,
                                                 NoEnv, NoHandler)]]
    /\ calls' = calls + 1
    /\ UNCHANGED <<configVars, client, last, twin, spans, wire>>

\* a decorated method reads c.EnableTrace for the decorator
ReadFlag(g) ==
    /\ procs[g].pc = "entered"
    /\ procs[g].op \in {"Index", "Search"}
    /\ procs' = [procs EXCEPT ![g].pc = "flagged", ![g].flag = client.EnableTrace]
    /\ UNCHANGED <<configVars, client, last, twin, calls, spans, wire>>

\* the method reads c.client: to return it, to check it, or to hand the request over
ReadHandle(g) ==
    /\ \/ procs[g].pc = "flagged"
       \/ procs[g].pc = "entered" /\ procs[g].op \in {"GetClient", "Ping"}
    /\ procs' = [procs EXCEPT ![g].pc = "inflight", ![g].handle = client.client]
    /\ UNCHANGED <<configVars, client, last, twin, calls, spans, wire>>

\* the call comes to its end: the transport answers the request, if there is one
Finish(g) ==
    /\ \/ procs[g].pc = "inflight"
       \/ procs[g].pc = "entered" /\ procs[g].op = "Close"
    /\ \E env \in (IF procs[g].op \in {"Close", "GetClient"} THEN {NoEnv} ELSE ConcEnvs) :
          LET in == [procs[g].in EXCEPT !.env = env]
          IN procs' = [procs EXCEPT ![g].pc = "done", ![g].in = in,
                                    ![g].out = CallOf(procs[g].op, Seen(procs[g]), in)]
    /\ client' = ClientAfter(procs[g].op, client)
    /\ UNCHANGED <<configVars, last, twin, calls, spans, wire>>

\* the caller takes the result
Return(g) ==
    /\ procs[g].pc = "done"
    /\ procs' = [procs EXCEPT ![g] = IdleProc]
    /\ UNCHANGED <<configVars, client, last, twin, calls, spans, wire>>

NextConc ==
    \E g \in Goroutines :
        Begin(g) \/ ReadFlag(g) \/ ReadHandle(g) \/ Finish(g) \/ Return(g)

SpecConc == InitConc /\ [][NextConc]_vars

----------------------------------------------------------------------------
(* Claims about the construction path, checked under SpecConfig *)

\* the probe of a construction succeeded: it was issued, the transport did not
\* fail, the response came before the deadline and its status is no error status
ProbeSucceeded(o, env) ==
    /\ ~o.nil
    /\ Len(o.Addresses) > 0
    /\ env.buildOK
    /\ ~env.transportErr
    /\ o.DialTimeout > 0
    /\ env.latency < o.DialTimeout
    /\ env.status <= 299

\* C1: NewElasticsearch returns a non-nil client exactly when the probe succeeded,
\* and otherwise a nil client with a non-nil error; the caller holds what it returned.
C1_ClientIffProbeSucceeded ==
    nres.called =>
        /\ ~nres.out.client.nil <=> ProbeSucceeded(opts, nres.env)
        /\ ~nres.out.client.nil => nres.out.err = NilErr
        /\ nres.out.client.nil => nres.out.err # NilErr
        /\ client = nres.out.client

C1_Witness ==
    /\ nres.called
    /\ ~nres.out.client.nil
    /\ ~client.client.nil

\* C2: with nil Options or an empty address list NewElasticsearch returns a nil
\* client and the matching error, and has neither built a client nor sent a probe.
C2_EarlyRejection ==
    nres.called =>
        /\ opts.nil =>
              /\ nres.out.client.nil
              /\ nres.out.err = Errorf("elasticsearch options cannot be nil")
              /\ nres.out.events = <<>>
        /\ (~opts.nil /\ Len(opts.Addresses) = 0) =>
              /\ nres.out.client.nil
              /\ nres.out.err = Errorf("elasticsearch addresses cannot be empty")
              /\ nres.out.events = <<>>

C2_Witness ==
    /\ nres.called
    /\ ~opts.nil
    /\ Len(opts.Addresses) = 0
    /\ nres.env.buildOK
    /\ nres.out.events = <<>>

\* the configs ToOptions must refuse
Refused(c) ==
    \/ c.nil
    \/ ~c.Enabled
    \/ Len(c.Addresses) = 0
    \/ \E i \in 1..Len(c.Addresses) : c.Addresses[i] = ""

\* C3: ToOptions returns no Options and an error for a nil config, an enabled config
\* with an empty address list or an empty address, and every disabled config;
\* Validate returns nil for every disabled config.
C3_ToOptionsRefuses ==
    /\ (ores.called /\ Refused(cfg)) =>
          /\ ores.out.opts.nil
          /\ ores.out.err # NilErr
    /\ (vres.called /\ ~cfg.nil /\ ~cfg.Enabled) => vres.err = NilErr
    /\ (vres.called /\ cfg.nil) => vres.err # NilErr

\* a disabled config without addresses passes Validate and fails ToOptions
C3_Witness ==
    /\ vres.called
    /\ ores.called
    /\ ~cfg.nil
    /\ ~cfg.Enabled
    /\ Len(cfg.Addresses) = 0
    /\ vres.err = NilErr
    /\ ores.out.err # NilErr

\* C4: when ToOptions succeeds the config was enabled, the addresses are non-empty
\* without an empty entry, each timeout is the config's value or 30 when that is
\* zero, and every other field is the config's.
C4_ToOptionsFields ==
    (ores.called /\ ores.out.err = NilErr) =>
        LET o == ores.out.opts
        IN /\ ~o.nil
           /\ cfg.Enabled
           /\ Len(o.Addresses) > 0
           /\ \A i \in 1..Len(o.Addresses) : o.Addresses[i] # ""
           /\ o.Addresses = cfg.Addresses
           /\ o.DialTimeout = (IF cfg.DialTimeout # 0 THEN cfg.DialTimeout ELSE 30)
           /\ o.ReadTimeout = (IF cfg.ReadTimeout # 0 THEN cfg.ReadTimeout ELSE 30)
           /\ o.WriteTimeout = (IF cfg.WriteTimeout # 0 THEN cfg.WriteTimeout ELSE 30)
           /\ o.DialTimeout # 0 /\ o.ReadTimeout # 0 /\ o.WriteTimeout # 0
           /\ o.Username = cfg.Username
           /\ o.Password = cfg.Password
           /\ o.CloudID = cfg.CloudID
           /\ o.APIKey = cfg.APIKey
           /\ o.EnableTLS = cfg.EnableTLS
           /\ o.CACert = cfg.CACert
           /\ o.MaxRetries = cfg.MaxRetries
           /\ o.EnableTrace = cfg.EnableTrace

C4_Witness ==
    /\ ores.called
    /\ ores.out.err = NilErr
    /\ cfg.DialTimeout = 0
    /\ cfg.ReadTimeout # 0
    /\ cfg.MaxRetries < 0
    /\ ores.out.opts.DialTimeout = 30

----------------------------------------------------------------------------
(* Claims about the calls on a client, checked under Spec *)

Decorated == {"Index", "Get", "Delete", "Search", "Bulk"}

\* the context a decorator hands to its handler
HandlerCtx(c) == IF c.EnableTrace THEN WithSpan(Background) ELSE Background

\* what the handler of the last call returned: the handler handed to a decorator
\* directly, or the internal method a decorated operation wraps
HandlerOf(l, c) ==
    CASE l.op \in {"executeWithTrace", "queryWithTrace"} -> l.in.h
      [] l.op = "Index"  -> index(c, HandlerCtx(c), l.in.index, l.in.id, l.in.body, l.in.env)
      [] l.op = "Get"    -> get(c, HandlerCtx(c), l.in.index, l.in.id, l.in.env)
      [] l.op = "Delete" -> delete(c, HandlerCtx(c), l.in.index, l.in.id, l.in.env)
      [] l.op = "Search" -> search(c, HandlerCtx(c), l.in.index, l.in.query, l.in.env)
      [] l.op = "Bulk"   -> bulk(c, HandlerCtx(c), l.in.body.text, l.in.env)

ThroughDecorator(l) == l.op \in Decorated \cup {"executeWithTrace", "queryWithTrace"}

ReturnsMap(l) == l.op \in {"queryWithTrace", "Get", "Search"}

\* C5: a decorator calls its handler once and returns the handler's error as it is;
\* queryWithTrace returns the handler's map on success and a nil map with an error.
C5_DecoratorReturnsHandlerError ==
    ThroughDecorator(last) =>
        LET h == HandlerOf(last, client)
        IN /\ Occurs(last.out.events, "handler") = 1
           /\ last.out.reqs = h.reqs
           /\ last.out.err = h.err
           /\ ReturnsMap(last) =>
                 /\ h.err = NilErr => last.out.result = h.result
                 /\ h.err # NilErr => last.out.result = MapResult(NilMap)
                 /\ ~(last.out.err # NilErr /\ ~last.out.result.map.nil)

\* the handler returns a map together with an error
C5_Witness ==
    /\ last.op = "queryWithTrace"
    /\ client.EnableTrace
    /\ last.in.h.err # NilErr
    /\ ~last.in.h.result.map.nil
    /\ last.out.err = last.in.h.err
    /\ last.out.result.map.nil

\* C6: a decorated call starts one span and ends it once, as its last step, when
\* tracing is enabled, and starts and ends none when it is disabled; over all calls
\* as many spans were ended as were started.
C6_SpanStartedAndEndedOnce ==
    /\ spans.started = spans.ended
    /\ ThroughDecorator(last) =>
          LET ev == last.out.events
          IN IF client.EnableTrace
             THEN /\ Occurs(ev, "StartSpan") = 1
                  /\ Occurs(ev, "span.End") = 1
                  /\ ev[Len(ev)] = "span.End"
             ELSE /\ Occurs(ev, "StartSpan") = 0
                  /\ Occurs(ev, "span.End") = 0

\* the second traced call fails while decoding, and both spans are ended
C6_Witness ==
    /\ client.EnableTrace
    /\ last.op = "Get"
    /\ last.out.err.msg = "failed to decode response"
    /\ spans.started = 2
    /\ spans.ended = 2

IsSpanEvent(e) ==
    e \in {"StartSpan", "span.SetStatus", "span.RecordError", "span.SetAttributes", "span.End"}

NotSpanEvent(e) == ~IsSpanEvent(e)

\* C7: the same call with the same answer of the server on a client with the other
\* value of EnableTrace returns the same result and error, sends the same requests
\* and writes the same log records; only the span steps differ.
C7_TraceFlagChangesOnlySpans ==
    last.op # "none" =>
        /\ twin.op = last.op
        /\ twin.in = last.in
        /\ twin.out.result = last.out.result
        /\ twin.out.err = last.out.err
        /\ twin.out.reqs = last.out.reqs
        /\ twin.out.log = last.out.log
        /\ SelectSeq(twin.out.events, NotSpanEvent) = SelectSeq(last.out.events, NotSpanEvent)

\* a failing decorated call whose span differs from the untraced run's
C7_Witness ==
    /\ last.op = "Index"
    /\ client.EnableTrace
    /\ last.out.err # NilErr
    /\ last.out.span # twin.out.span
    /\ last.out.events # twin.out.events

HasChan(m) == ~m.nil /\ \E k \in DOMAIN m.kv : m.kv[k][1] = "chan"

\* the body the last call was to serialize cannot be written as JSON
Unserializable(l) ==
    \/ l.op \in {"Index", "Update"} /\ l.in.body.kind = "value" /\ HasChan(l.in.body.val)
    \/ l.op \in {"Search", "DeleteByQuery", "CreateIndex", "Count"} /\ HasChan(l.in.query)
    \/ l.op = "UpdateByQuery" /\ (HasChan(l.in.query) \/ HasChan(l.in.script))

SerializationErrors ==
    {"failed to marshal document", "failed to marshal query", "failed to marshal settings",
     "failed to marshal update query", "failed to marshal update body"}

Serializing ==
    {"Index", "Update", "Search", "DeleteByQuery", "CreateIndex", "UpdateByQuery", "Count"}

\* C8: an operation whose body cannot be serialized returns a serialization error
\* and hands no request to the transport; every serialization step of a call comes
\* before its dispatch.
C8_SerializationBeforeDispatch ==
    last.op \in Serializing =>
        LET ev == last.out.events
        IN /\ Unserializable(last) =>
                 /\ last.out.err.msg \in SerializationErrors
                 /\ last.out.err.cause = MarshalErr.msg
                 /\ last.out.reqs = <<>>
                 /\ Occurs(ev, "req.Do") = 0
           /\ \A i, j \in 1..Len(ev) : (ev[i] = "json.Marshal" /\ ev[j] = "req.Do") => i < j

C8_Witness ==
    /\ last.op = "UpdateByQuery"
    /\ ~HasChan(last.in.query)
    /\ HasChan(last.in.script)
    /\ last.out.err.msg = "failed to marshal update query"
    /\ wire.requests = 1

\* the last call got a response with this status
GotStatus(l, st) == Len(l.out.reqs) = 1 /\ l.in.env.fail = "" /\ l.in.env.status = st

GotErrorStatus(l) == Len(l.out.reqs) = 1 /\ l.in.env.fail = "" /\ l.in.env.status > 299

OpTag(op) ==
    CASE op = "Get" -> "elasticsearch get error"
      [] op = "Delete" -> "elasticsearch delete error"
      [] op = "Update" -> "elasticsearch update error"

\* C9: Get, Delete and Update return "document not found" exactly when the response
\* has status 404 and the error tagged with the operation for every other error
\* status; no other operation returns "document not found".
C9_NotFoundOn404 ==
    /\ last.op \in {"Get", "Delete", "Update"} =>
          /\ last.out.err = Errorf("document not found") <=> GotStatus(last, 404)
          /\ (GotErrorStatus(last) /\ ~GotStatus(last, 404)) =>
                /\ last.out.err.msg = OpTag(last.op)
                /\ last.out.err.code = last.in.env.status
                /\ last.out.err # Errorf("document not found")
    /\ (last.op \notin {"Get", "Delete", "Update", "executeWithTrace", "queryWithTrace"}) =>
          last.out.err.msg # "document not found"

C9_Witness ==
    /\ last.op = "Delete"
    /\ GotStatus(last, 404)
    /\ last.out.err.msg = "document not found"
    /\ twin.out.err.msg = "document not found"

\* C10: ExistsIndex returns (false, nil) on status 404, (false, error) on any other
\* error status and on a transport failure, (true, nil) on a success status, and
\* never true together with an error.
C10_ExistsIndexTotal ==
    last.op = "ExistsIndex" =>
        LET env == last.in.env
            r == last.out.result
        IN /\ r.kind = "bool"
           /\ env.fail # "" => (r.bool = FALSE /\ last.out.err # NilErr)
           /\ (env.fail = "" /\ env.status = 404) => (r.bool = FALSE /\ last.out.err = NilErr)
           /\ (env.fail = "" /\ env.status > 299 /\ env.status # 404) =>
                 (r.bool = FALSE /\ last.out.err # NilErr)
           /\ (env.fail = "" /\ env.status <= 299) => (r.bool = TRUE /\ last.out.err = NilErr)
           /\ ~(r.bool = TRUE /\ last.out.err # NilErr)

C10_Witness ==
    /\ last.op = "ExistsIndex"
    /\ last.in.env.fail = ""
    /\ last.in.env.status = 404
    /\ last.out.result = BoolResult(FALSE)
    /\ last.out.err = NilErr

----------------------------------------------------------------------------
(* Claims about Count and the decoding operations *)

\* the response arrived with a success status
Answered(l) == Len(l.out.reqs) = 1 /\ l.in.env.fail = "" /\ l.in.env.status <= 299

\* a JSON object text with a member "count" whose value is a number
HasNumericCount(text) ==
    /\ Decode(text).ok
    /\ \E i \in 1..(Len(text) - 2) :
          text[i] = StrT("count") /\ text[i + 1] = Colon /\ text[i + 2][1] = "num"

\* C11: Count returns (n, nil) only for a success response with a numeric count
\* member, n being that number; for a decoded success response without one it returns
\* (0, "invalid count response format"), an error no other path returns; it never
\* returns a nil error for a response without a numeric count.
C11_CountFormatError ==
    last.op = "Count" =>
        LET body == last.in.env.body
        IN /\ last.out.err = NilErr =>
                 /\ Answered(last)
                 /\ HasNumericCount(body)
                 /\ last.out.result.kind = "int64"
                 /\ \E i \in 1..(Len(body) - 2) :
                       /\ body[i] = StrT("count")
                       /\ body[i + 2] = NumT(ToString(last.out.result.n))
           /\ (Answered(last) /\ Decode(body).ok /\ ~HasNumericCount(body)) =>
                 /\ last.out.result = IntResult(0)
                 /\ last.out.err = Errorf("invalid count response format")
           /\ last.out.err.msg = "invalid count response format" =>
                 /\ Answered(last)
                 /\ Decode(body).ok
                 /\ ~HasNumericCount(body)
           /\ last.out.err.msg \in {"failed to count", "elasticsearch count error",
                                    "failed to decode response", "failed to marshal query"} =>
                 ~(Answered(last) /\ Decode(body).ok)
           /\ (Answered(last) /\ ~HasNumericCount(body)) => last.out.err # NilErr

\* Count answered with {"count":"x"}: the member is there and is not a number
C11_Witness ==
    /\ last.op = "Count"
    /\ Answered(last)
    /\ last.in.env.body = Marshal(MapOf([k \in {"count"} |-> StrV("x")])).text
    /\ last.out.err = Errorf("invalid count response format")
    /\ last.out.result = IntResult(0)

\* the operations that decode the response body
Decoding == {"Get", "Search", "DeleteByQuery", "UpdateByQuery", "Count"}

\* a text that is not JSON: it holds something no JSON value begins or continues with
NotJSON(text) == \E i \in 1..Len(text) : text[i][1] = "junk"

----------------------------------------------------------------------------
(* Claims about the request payload of Index and Update *)

\* the body of the request the last call handed to the transport
Payload(l) == l.out.reqs[1].body

\* a JSON object with the single member "doc"
Enveloped(text) ==
    /\ Len(text) >= 4
    /\ SubSeq(text, 1, 3) = <<LBrace, StrT("doc"), Colon>>
    /\ text[Len(text)] = RBrace

\* the document in the payload: the payload of Index, the value of "doc" of Update
DocSent(l) ==
    IF l.op = "Index" THEN Payload(l) ELSE SubSeq(Payload(l), 4, Len(Payload(l)) - 1)

\* the requests of the same call made with another body
RequestsWith(l, c, body) ==
    IF l.op = "Index"
    THEN Index(c, Background, l.in.index, l.in.id, body, l.in.env).reqs
    ELSE Update(c, Background, l.in.index, l.in.id, body, l.in.env).reqs

\* C13: Index sends the document itself and Update the document under the single
\* member "doc"; a string or a byte slice is sent as it is, not as a JSON string; a
\* structured value is sent as its JSON, and the same JSON handed over as a string
\* or as bytes gives the same request.
C13_SamePayloadForBytesStringValue ==
    (last.op \in {"Index", "Update"} /\ Len(last.out.reqs) = 1) =>
        LET b == last.in.body
            sent == DocSent(last)
        IN /\ last.op = "Update" => Enveloped(Payload(last))
           /\ (b.kind \in {"string", "bytes"} /\ ~b.nilBytes) => sent = b.text
           /\ b.kind = "value" =>
                 /\ Decode(sent) = [ok |-> TRUE, val |-> b.val]
                 /\ RequestsWith(last, client, StringBody(sent)) = last.out.reqs
                 /\ RequestsWith(last, client, BytesBody(sent)) = last.out.reqs

\* Update called with a structured document
C13_Witness ==
    /\ last.op = "Update"
    /\ last.in.body = ValueBody(Doc)
    /\ Len(last.out.reqs) = 1
    /\ Payload(last) = <<LBrace, StrT("doc"), Colon,
                         LBrace, StrT("title"), Colon, StrT("x"), RBrace, RBrace>>

----------------------------------------------------------------------------
(* Claims about requests and response bodies *)

\* the operations that talk to the server
RequestOps ==
    {"Ping", "IsConnected", "Index", "Get", "Delete", "Search", "Bulk", "CreateIndex",
     "DeleteIndex", "ExistsIndex", "Update", "UpdateByQuery", "Count", "DeleteByQuery"}

\* the context the request of the call runs under
RequestCtx(l) ==
    IF l.op = "IsConnected" THEN WithTimeout(Background, PingTimeout) ELSE Background

\* the transport answered the request of the call with a response
Responded(l) == Len(l.out.reqs) = 1 /\ Transport(RequestCtx(l), l.in.env).fail = ""

\* every response in the events is followed by the close of its body
BodiesClosed(events) ==
    /\ Occurs(events, "response") = Occurs(events, "Body.Close")
    /\ \A i \in 1..Len(events) :
          events[i] = "response" => \E j \in (i + 1)..Len(events) : events[j] = "Body.Close"

\* the errors of a call that returned before it reached the transport
BeforeDispatchErrors == SerializationErrors \cup {"elasticsearch client is not initialized"}

\* C14 as stated: every call of an operation sends exactly one request and closes the
\* body of the response; no body stays open.
C14_ExactlyOneRequestPerCall ==
    /\ last.op \in RequestOps =>
          /\ Len(last.out.reqs) = 1
          /\ BodiesClosed(last.out.events)
    /\ wire.opened = wire.closed

\* C14 (amended): a call sends at most one request: none when it returns before the
\* dispatch (nil handle, body that cannot be serialized) and one otherwise; a request
\* the transport answers opens one response, whose body is closed before the call
\* returns on every path; so does the probe of the construction, and after any
\* sequence of calls as many bodies were closed as were opened.
C14_AtMostOneRequestBodyClosed ==
    /\ last.op \in RequestOps =>
          /\ Len(last.out.reqs) = Occurs(last.out.events, "req.Do")
          /\ Len(last.out.reqs) <= 1
          /\ Len(last.out.reqs) = 0 <=>
                \/ last.out.err.msg \in BeforeDispatchErrors
                \/ last.op = "IsConnected" /\ client.client.nil
          /\ Occurs(last.out.events, "response") = (IF Responded(last) THEN 1 ELSE 0)
          /\ BodiesClosed(last.out.events)
    /\ wire.requests <= calls
    /\ wire.opened = wire.closed
    /\ Occurs(nres.out.events, "Info") <= 1
    /\ BodiesClosed(nres.out.events)

\* Count answered with a body without a count, after a construction whose probe was
\* answered: both bodies were closed
C14_Witness ==
    /\ last.op = "Count"
    /\ last.out.err.msg = "invalid count response format"
    /\ Occurs(last.out.events, "response") = 1
    /\ Occurs(nres.out.events, "response") = 1
    /\ wire.opened = 1
    /\ wire.closed = 1

----------------------------------------------------------------------------
(* Claims about cancellation *)

\* the errors of a request whose context ended while it was in flight
ContextErrors == {"context canceled", "context deadline exceeded"}

\* the context of the last call ended while its request was in flight
Aborted(l) == Len(l.out.reqs) = 1 /\ l.in.env.fail \in ContextErrors

\* C15: a decorated operation whose request is aborted by the context returns an
\* error that wraps the context's error, with no result; the one log record is the
\* error record, and with tracing the span has status Error and is ended as the last
\* step of the call.
C15_AbortedRequestSurfaces ==
    (last.op \in Decorated /\ Aborted(last)) =>
        LET ev == last.out.events
        IN /\ last.out.err # NilErr
           /\ last.out.err.cause = last.in.env.fail
           /\ ReturnsMap(last) => last.out.result = MapResult(NilMap)
           /\ Len(last.out.log) = 1
           /\ last.out.log[1].level = "error"
           /\ Occurs(ev, "log.Error") = 1
           /\ Occurs(ev, "log.Info") = 0
           /\ Occurs(ev, "response") = 0
           /\ client.EnableTrace =>
                 /\ last.out.span.status = "Error"
                 /\ <<"db.error", last.out.err.msg>> \in last.out.span.attrs
                 /\ Occurs(ev, "span.End") = 1
                 /\ ev[Len(ev)] = "span.End"

\* Bulk on a tracing client whose request ran into the deadline of its context
C15_Witness ==
    /\ last.op = "Bulk"
    /\ client.EnableTrace
    /\ last.in.env = Fails("context deadline exceeded")
    /\ last.out.err = ErrorfWrap("failed to bulk", Errorf("context deadline exceeded"))
    /\ last.out.span.status = "Error"

----------------------------------------------------------------------------
(* Claims about concurrent calls, checked under SpecConc *)

\* the log records and the span of a finished call carry the arguments of that call
OwnRecords(p) ==
    /\ \A i \in 1..Len(p.out.log) :
          {<<"operation", IF p.op = "Index" THEN "index" ELSE "search">>,
           <<"index", p.in.index>>} \subseteq p.out.log[i].fields
    /\ p.out.span # NoSpan => <<"db.name", p.in.index>> \in p.out.span.attrs

\* C16: however the calls of the goroutines interleave, the client stays as it was
\* constructed, and a finished call has the result, the requests, the span and the
\* log records of the same call made alone on that client with the same answer of
\* the server; its records and its span carry its own arguments.
C16_CallsShareNothing ==
    /\ client = nres.out.client
    /\ \A g \in Goroutines :
          procs[g].pc = "done" =>
              /\ procs[g].out = CallOf(procs[g].op, nres.out.client, procs[g].in)
              /\ OwnRecords(procs[g])

\* one goroutine finished Close while the other, which had entered Index before,
\* finished its call on another index with a span
C16_Witness ==
    /\ procs[1].pc = "done"
    /\ procs[1].op = "Close"
    /\ procs[2].pc = "done"
    /\ procs[2].op = "Index"
    /\ procs[2].in.index = "idx2"
    /\ procs[2].out.err = NilErr
    /\ procs[2].out.span.status = "Ok"
    /\ Len(procs[2].out.log) = 1

----------------------------------------------------------------------------
(* Claims about the fields of the client *)

\* what a successful construction returns, and what Close and GetClient return
ClientAsConstructed ==
    /\ nres.out.err = NilErr =>
          /\ ~nres.out.client.nil
          /\ ~nres.out.client.client.nil
          /\ nres.out.client.EnableTrace = opts.EnableTrace
    /\ last.op = "Close" =>
          /\ last.out.err = NilErr
          /\ last.out.events = <<>>
          /\ last.out.reqs = <<>>
    /\ last.op = "GetClient" => last.out.result = HandleResult(client.client)

\* C17: a successful construction returns a client with a handle and with the trace
\* flag of the options; Close returns nil, also without a handle, and sends nothing;
\* GetClient returns the handle of the client; no call, Close included, changes the
\* handle or the flag, so a call after Close finds the client it would have found
\* before.
C17_ClientImmutable ==
    /\ []ClientAsConstructed
    /\ [][client' = client]_vars

\* Close returned nil on a client without a handle, as the second call
C17_Witness ==
    /\ last.op = "Close"
    /\ client.client.nil
    /\ last.out.err = NilErr
    /\ calls = 2

----------------------------------------------------------------------------
(* Claims about Ping and IsConnected *)

\* C18: without a handle Ping returns "elasticsearch client is not initialized" and
\* IsConnected returns false, and neither sends a request; with a handle Ping returns
\* nil exactly when the transport did not fail and the status is no error status, and
\* IsConnected sends one ping under a deadline of 5 seconds and returns true exactly
\* when that ping returns nil: the response came before the deadline, without a
\* transport error and with a status that is no error status.
C18_PingAndIsConnected ==
    LET env == last.in.env
    IN /\ (last.op = "Ping" /\ client.client.nil) =>
             /\ last.out.err = Errorf("elasticsearch client is not initialized")
             /\ last.out.reqs = <<>>
             /\ last.out.events = <<>>
       /\ (last.op = "IsConnected" /\ client.client.nil) =>
             /\ last.out.result = BoolResult(FALSE)
             /\ last.out.reqs = <<>>
             /\ last.out.events = <<>>
       /\ (last.op = "Ping" /\ ~client.client.nil) =>
             /\ Len(last.out.reqs) = 1
             /\ last.out.err = NilErr <=> (env.fail = "" /\ env.status <= 299)
       /\ (last.op = "IsConnected" /\ ~client.client.nil) =>
             /\ Len(last.out.reqs) = 1
             /\ last.out.reqs[1].api = "Ping"
             /\ last.out.result.kind = "bool"
             /\ last.out.result.bool <=>
                   Ping(client, WithTimeout(Background, PingTimeout), env).err = NilErr
             /\ last.out.result.bool <=>
                   (env.fail = "" /\ env.latency < PingTimeout /\ env.status <= 299)

\* IsConnected on a client without a handle, after another call that sent nothing
C18_Witness ==
    /\ last.op = "IsConnected"
    /\ client.client.nil
    /\ last.out.result = BoolResult(FALSE)
    /\ calls = 2
    /\ wire.requests = 0

----------------------------------------------------------------------------
(* Claims about which operations are decorated *)

\* the methods that call the client or return at once, without a decorator
Direct ==
    {"Close", "GetClient", "Ping", "IsConnected", "CreateIndex", "DeleteIndex",
     "ExistsIndex", "Update", "UpdateByQuery", "Count", "DeleteByQuery"}

\* the steps only a decorator takes
DecoratorEvents ==
    {"time.Now", "handler", "time.Since", "log.Info", "log.Error", "StartSpan",
     "span.SetStatus", "span.RecordError", "span.SetAttributes", "span.End"}

\* a call that took no step of a decorator, wrote no record and has no span
Undecorated(out) ==
    /\ out.log = <<>>
    /\ out.span = NoSpan
    /\ \A i \in 1..Len(out.events) : out.events[i] \notin DecoratorEvents

\* C19: Index, Get, Delete, Search and Bulk run their internal method once inside a
\* decorator, which writes one log record and, with tracing, starts one span; every
\* other method takes no step of a decorator, writes no record and has no span,
\* whether it fails or not and whatever the trace flag is.
C19_ExactlyFiveDecorated ==
    /\ last.op \in Decorated =>
          /\ Occurs(last.out.events, "handler") = 1
          /\ Len(last.out.log) = 1
          /\ Occurs(last.out.events, "StartSpan") = (IF client.EnableTrace THEN 1 ELSE 0)
          /\ (last.out.span # NoSpan) <=> client.EnableTrace
          /\ Len(twin.out.log) = 1
          /\ (twin.out.span # NoSpan) <=> ~client.EnableTrace
    /\ last.op \in Direct =>
          /\ Undecorated(last.out)
          /\ Undecorated(twin.out)

\* DeleteByQuery failed on a tracing client and left neither a record nor a span
C19_Witness ==
    /\ last.op = "DeleteByQuery"
    /\ client.EnableTrace
    /\ last.out.err # NilErr
    /\ Len(last.out.reqs) = 1
    /\ Undecorated(last.out)

----------------------------------------------------------------------------
(* Claims about the side effects of a failure *)

\* the request of the call failed: the transport failed or the status is an error
\* status (404 is an answer for ExistsIndex, not an error)
ServerFailed(l) ==
    /\ Len(l.out.reqs) = 1
    /\ LET res == Transport(RequestCtx(l), l.in.env)
       IN \/ res.fail # ""
          \/ IsError(res.status) /\ ~(l.op = "ExistsIndex" /\ res.status = 404)

\* the records and the span of a call that failed: one error record, no info record,
\* and with tracing a span marked as errored once
FailureSideEffects(out, traced) ==
    /\ Len(out.log) = 1
    /\ out.log[1].level = "error"
    /\ <<"error", out.err.msg>> \in out.log[1].fields
    /\ Occurs(out.events, "log.Error") = 1
    /\ Occurs(out.events, "log.Info") = 0
    /\ Occurs(out.events, "span.RecordError") = (IF traced THEN 1 ELSE 0)
    /\ Occurs(out.events, "span.SetStatus") = (IF traced THEN 1 ELSE 0)
    /\ out.span.status = (IF traced THEN "Error" ELSE "none")

\* the records and the span of a call that succeeded: one info record, no error record
SuccessSideEffects(out, traced) ==
    /\ Len(out.log) = 1
    /\ out.log[1].level = "info"
    /\ Occurs(out.events, "log.Info") = 1
    /\ Occurs(out.events, "log.Error") = 0
    /\ Occurs(out.events, "span.RecordError") = 0
    /\ Occurs(out.events, "span.SetStatus") = (IF traced THEN 1 ELSE 0)
    /\ out.span.status = (IF traced THEN "Ok" ELSE "none")

\* C20 as stated: every call of an operation of the client that fails writes one
\* error record and every call that succeeds one info record.
C20_EveryCallLogsOnce ==
    last.op \in RequestOps \ {"IsConnected"} =>
        /\ ServerFailed(last) => last.out.err # NilErr
        /\ last.out.err # NilErr => FailureSideEffects(last.out, client.EnableTrace)
        /\ last.out.err = NilErr => SuccessSideEffects(last.out, client.EnableTrace)

\* C20 (amended): every operation returns the error of a failed request (IsConnected
\* returns false); a call that goes through a decorator and fails writes one error
\* record and no info record and, with tracing, marks its span as errored once; one
\* that succeeds writes one info record and no error record; a call of any other
\* operation writes no record at all.
C20_DecoratedCallsLogOnce ==
    /\ last.op \in RequestOps \ {"IsConnected"} =>
          (ServerFailed(last) => last.out.err # NilErr)
    /\ last.op = "IsConnected" =>
          (ServerFailed(last) => last.out.result = BoolResult(FALSE))
    /\ ThroughDecorator(last) =>
          /\ last.out.err = HandlerOf(last, client).err
          /\ last.out.err # NilErr => FailureSideEffects(last.out, client.EnableTrace)
          /\ last.out.err = NilErr => SuccessSideEffects(last.out, client.EnableTrace)
    /\ last.op \in Direct => last.out.log = <<>>

\* Get on a tracing client answered with 404: one error record, span marked once
C20_Witness ==
    /\ last.op = "Get"
    /\ client.EnableTrace
    /\ last.out.err = Errorf("document not found")
    /\ FailureSideEffects(last.out, TRUE)

----------------------------------------------------------------------------
(* Claims about the configuration of the underlying client, checked under  *)
(* SpecConfig                                                               *)

\* the construction came as far as elasticsearch.NewClient: a config was handed over
HandedOver == nres.called /\ Occurs(nres.out.events, "NewClient") = 1

\* C21: in the config handed to the underlying client the basic credentials are set
\* exactly when user name and password are both non-empty, and then the API key is
\* not set, whatever it is; otherwise the API key of the options is set and no basic
\* credentials; the two are never set together; the cloud identifier of the options
\* is passed on in every case.
C21_BasicBeforeAPIKey ==
    HandedOver =>
        LET e == nres.out.escfg
            basic == opts.Username # "" /\ opts.Password # ""
        IN /\ basic => (e.Username = opts.Username /\ e.Password = opts.Password
                        /\ e.APIKey = "")
           /\ ~basic => (e.Username = "" /\ e.Password = "" /\ e.APIKey = opts.APIKey)
           /\ ~(e.Username # "" /\ e.APIKey # "")
           /\ e.CloudID = opts.CloudID
           /\ e.Addresses = opts.Addresses

\* user name, password, API key and cloud identifier all given
C21_Witness ==
    /\ HandedOver
    /\ opts.Username = "u"
    /\ opts.Password = "p"
    /\ opts.APIKey = "k"
    /\ opts.CloudID = "c"
    /\ nres.out.escfg.Username = "u"
    /\ nres.out.escfg.APIKey = ""
    /\ nres.out.escfg.CloudID = "c"

\* C22: the retry count handed to the underlying client is that of the options when
\* it is positive and 3 otherwise, so it is positive; the construction sends its one
\* probe at most once.
C22_RetriesPositive ==
    HandedOver =>
        LET n == nres.out.escfg.MaxRetries
        IN /\ opts.MaxRetries > 0 => n = opts.MaxRetries
           /\ opts.MaxRetries <= 0 => n = 3
           /\ n > 0
           /\ Occurs(nres.out.events, "Info") <= 1

\* a negative retry count and a probe that failed in the transport: one probe
C22_Witness ==
    /\ HandedOver
    /\ opts.MaxRetries = -1
    /\ nres.out.escfg.MaxRetries = 3
    /\ nres.env.transportErr
    /\ Occurs(nres.out.events, "Info") = 1

----------------------------------------------------------------------------
(* Claims about UpdateByQuery *)

\* the JSON text has a member with the key k
HasKey(text, k) == \E i \in 1..(Len(text) - 1) : text[i] = StrT(k) /\ text[i + 1] = Colon

\* the clause of the key k in the text is the JSON of the map m
HoldsClause(text, k, m) ==
    \E i \in 1..(Len(text) - 1) :
        /\ text[i] = StrT(k)
        /\ text[i + 1] = Colon
        /\ i + 1 + Len(Marshal(m).text) <= Len(text)
        /\ SubSeq(text, i + 2, i + 1 + Len(Marshal(m).text)) = Marshal(m).text

\* what UpdateByQuery sends, and what it does with a query or script that cannot be
\* serialized
UpdateByQueryBody ==
    /\ Unserializable(last) =>
          /\ last.out.err.msg = "failed to marshal update query"
          /\ last.out.reqs = <<>>
          /\ last.out.result = MapResult(NilMap)
    /\ ~Unserializable(last) =>
          /\ Len(last.out.reqs) = 1
          /\ Payload(last)[1] = LBrace
          /\ Payload(last)[Len(Payload(last))] = RBrace
          /\ HoldsClause(Payload(last), "query", last.in.query)
          /\ HasKey(Payload(last), "script") <=> ~last.in.script.nil
          /\ ~last.in.script.nil => HoldsClause(Payload(last), "script", last.in.script)

----------------------------------------------------------------------------
(* Claims about the errors of the transport and of the server *)

\* the operations that return an error
ErrorOps == RequestOps \ {"IsConnected"}

\* the text an operation puts before the error of the transport
FailedTag(op) ==
    CASE op = "Ping"          -> "failed to ping elasticsearch"
      [] op = "Index"         -> "failed to index document"
      [] op = "Get"           -> "failed to get document"
      [] op = "Delete"        -> "failed to delete document"
      [] op = "Search"        -> "failed to search"
      [] op = "Bulk"          -> "failed to bulk"
      [] op = "CreateIndex"   -> "failed to create index"
      [] op = "DeleteIndex"   -> "failed to delete index"
      [] op = "ExistsIndex"   -> "failed to check index"
      [] op = "Update"        -> "failed to update document"
      [] op = "UpdateByQuery" -> "failed to update by query"
      [] op = "Count"         -> "failed to count"
      [] op = "DeleteByQuery" -> "failed to delete by query"

\* the text an operation puts before the response with an error status
StatusTag(op) ==
    CASE op = "Ping"          -> "elasticsearch ping error"
      [] op = "Index"         -> "elasticsearch index error"
      [] op = "Get"           -> "elasticsearch get error"
      [] op = "Delete"        -> "elasticsearch delete error"
      [] op = "Search"        -> "elasticsearch search error"
      [] op = "Bulk"          -> "elasticsearch bulk error"
      [] op = "CreateIndex"   -> "elasticsearch create index error"
      [] op = "DeleteIndex"   -> "elasticsearch delete index error"
      [] op = "ExistsIndex"   -> "elasticsearch exists index error"
      [] op = "Update"        -> "elasticsearch update error"
      [] op = "UpdateByQuery" -> "elasticsearch update by query error"
      [] op = "Count"         -> "elasticsearch count error"
      [] op = "DeleteByQuery" -> "elasticsearch delete by query error"

\* the error names the operation and wraps the error of the transport
WrapsTransportError(l) ==
    /\ l.out.err.msg = FailedTag(l.op)
    /\ l.out.err.cause = l.in.env.fail

\* the error names the operation and carries the status and the body of the response
CarriesServerDetail(l) ==
    /\ l.out.err.msg = StatusTag(l.op)
    /\ l.out.err.code = l.in.env.status
    /\ l.out.err.body = l.in.env.body

\* the transport failed the request of the last call
TransportFailed(l) == Len(l.out.reqs) = 1 /\ l.in.env.fail # ""

\* C24 as stated: a transport failure gives an error that names the operation and
\* wraps the transport's error; an error status gives an error that names the
\* operation and carries the server's detail, but for ExistsIndex on 404.
C24_EveryErrorNamesOperation ==
    last.op \in ErrorOps =>
        /\ TransportFailed(last) => WrapsTransportError(last)
        /\ GotErrorStatus(last) =>
              IF last.op = "ExistsIndex" /\ last.in.env.status = 404
              THEN last.out.err = NilErr
              ELSE last.out.err # NilErr /\ CarriesServerDetail(last)

\* C24 (amended): as stated, except that Get, Delete and Update answer the status
\* 404 with the error "document not found", which neither names the operation nor
\* carries the server's detail; no operation but ExistsIndex on 404 returns nil for
\* an error status.
C24_ErrorsNameOperation ==
    last.op \in ErrorOps =>
        /\ TransportFailed(last) => WrapsTransportError(last)
        /\ GotErrorStatus(last) =>
              IF last.op = "ExistsIndex" /\ last.in.env.status = 404
              THEN last.out.err = NilErr /\ last.out.result = BoolResult(FALSE)
              ELSE IF last.op \in {"Get", "Delete", "Update"} /\ last.in.env.status = 404
              THEN last.out.err = Errorf("document not found")
              ELSE last.out.err # NilErr /\ CarriesServerDetail(last)

\* DeleteIndex answered with the status 500 and an error body
C24_Witness ==
    /\ last.op = "DeleteIndex"
    /\ last.in.env = Responds(500, ErrorBody)
    /\ last.out.err = ErrorfRes("elasticsearch delete index error", Responds(500, ErrorBody))
    /\ last.out.err.body = ErrorBody

----------------------------------------------------------------------------
(* Claims about the order of the steps of a decorated call *)

\* the place of the first step e in the events, 0 if there is none
Pos(events, e) ==
    IF \E i \in 1..Len(events) : events[i] = e
    THEN CHOOSE i \in 1..Len(events) : events[i] = e /\ \A j \in 1..(i - 1) : events[j] # e
    ELSE 0

\* the steps of a decorated call in their order, h being what the handler did
StepsInOrder(h, traced) ==
    <<"time.Now">>
    \o (IF traced THEN <<"StartSpan">> ELSE <<>>)
    \o <<"handler">> \o h.events \o <<"time.Since">>
    \o (IF h.err # NilErr THEN <<"log.Error">> ELSE <<"log.Info">>)
    \o (IF ~traced THEN <<>>
        ELSE IF h.err # NilErr
        THEN <<"span.SetStatus", "span.RecordError", "span.SetAttributes">>
        ELSE <<"span.SetStatus", "span.SetAttributes">>)
    \o (IF traced THEN <<"span.End">> ELSE <<>>)

\* C25: a decorated call records the start time, starts the span if it traces, runs
\* the handler once, computes the duration, writes the log record, sets status and
\* attributes of the span (Error with the error text, or Ok with the duration) and
\* ends the span as its last step: never before the handler returned, and nothing
\* is set on the span after its end.
C25_StepsInOrder ==
    ThroughDecorator(last) =>
        LET ev == last.out.events
            h == HandlerOf(last, client)
            traced == client.EnableTrace
        IN /\ ev = StepsInOrder(h, traced)
           /\ Occurs(ev, "handler") = 1
           /\ Pos(ev, "time.Now") = 1
           /\ Pos(ev, "handler") < Pos(ev, "time.Since")
           /\ Pos(ev, "time.Since") < Pos(ev, "log.Error") + Pos(ev, "log.Info")
           /\ traced =>
                 /\ Pos(ev, "StartSpan") = 2
                 /\ Pos(ev, "handler") = 3
                 /\ Pos(ev, "log.Error") + Pos(ev, "log.Info") < Pos(ev, "span.SetStatus")
                 /\ Pos(ev, "span.SetStatus") < Pos(ev, "span.SetAttributes")
                 /\ Pos(ev, "span.SetAttributes") < Pos(ev, "span.End")
                 /\ Pos(ev, "span.End") = Len(ev)
                 /\ Occurs(ev, "span.End") = 1
                 /\ last.out.err # NilErr =>
                       /\ last.out.span.status = "Error"
                       /\ <<"db.error", last.out.err.msg>> \in last.out.span.attrs
                 /\ last.out.err = NilErr =>
                       /\ last.out.span.status = "Ok"
                       /\ <<"db.duration_ms", "duration">> \in last.out.span.attrs
           /\ ~traced => \A i \in 1..Len(ev) : NotSpanEvent(ev[i])

\* a traced search that succeeded, with its request between the start and the end
\* of the span
C25_Witness ==
    /\ last.op = "Search"
    /\ client.EnableTrace
    /\ last.out.err = NilErr
    /\ Pos(last.out.events, "StartSpan") = 2
    /\ Pos(last.out.events, "req.Do") > 3
    /\ Pos(last.out.events, "span.End") = Len(last.out.events)

----------------------------------------------------------------------------
(* Claims about the tags of the span and the fields of the log records *)

\* the operation name a decorated method hands to its decorator
OperationName(op) ==
    CASE op = "Index"  -> "index"
      [] op = "Get"    -> "get"
      [] op = "Delete" -> "delete"
      [] op = "Search" -> "search"
      [] op = "Bulk"   -> "bulk"

DocumentOps == {"Index", "Get", "Delete"}

\* C26: for Index, Get and Delete the span of a traced call is tagged with the
\* system, the index, the operation and the document id, and the log record of the
\* call carries the operation, the index, the document id and the duration.
C26_DocumentOpsCarryDocumentID ==
    last.op \in DocumentOps =>
        /\ client.EnableTrace =>
              {<<"db.system", "elasticsearch">>, <<"db.name", last.in.index>>,
               <<"db.operation", OperationName(last.op)>>,
               <<"db.document_id", last.in.id>>} \subseteq last.out.span.attrs
        /\ Len(last.out.log) = 1
        /\ {<<"operation", OperationName(last.op)>>, <<"index", last.in.index>>,
             <<"document_id", last.in.id>>, <<"duration", "duration">>}
              \subseteq last.out.log[1].fields

\* a traced Get: its span and its log record name the index and the operation but
\* not the document
C26_Witness ==
    /\ last.op = "Get"
    /\ client.EnableTrace
    /\ last.in.id = "1"
    /\ <<"db.operation", "get">> \in last.out.span.attrs
    /\ <<"db.document_id", "1">> \notin last.out.span.attrs
    /\ <<"document_id", "1">> \notin last.out.log[1].fields

----------------------------------------------------------------------------
(* Claims about the dial timeout, checked under SpecConfig *)

\* the construction sent its probe
ProbeIssued == nres.called /\ Occurs(nres.out.events, "Info") = 1

\* C27: the deadline of the probe is opts.DialTimeout as it is: the probe fails to
\* connect exactly when the transport fails or no response came before that
\* deadline, so with a DialTimeout that is not positive every construction that
\* sends its probe fails with "failed to connect to elasticsearch", whatever the
\* server answers, and no response is read; ToOptions, not the constructor, turns a
\* DialTimeout of zero into 30 seconds, with which a healthy server is reached.
C27_NoDefaultDialTimeout ==
    /\ ProbeIssued =>
          /\ nres.out.err.msg = "failed to connect to elasticsearch" <=>
                (nres.env.transportErr \/ opts.DialTimeout <= 0
                 \/ nres.env.latency >= opts.DialTimeout)
          /\ opts.DialTimeout <= 0 =>
                /\ nres.out.client.nil
                /\ client.nil
                /\ nres.out.err.msg = "failed to connect to elasticsearch"
                /\ ~nres.env.transportErr => nres.out.err.cause = "context deadline exceeded"
                /\ Occurs(nres.out.events, "response") = 0
    /\ (ores.called /\ ores.out.err = NilErr) =>
          opts.DialTimeout = (IF cfg.DialTimeout = 0 THEN 30 ELSE cfg.DialTimeout)
    /\ (ores.called /\ ores.out.err = NilErr /\ nres.called /\ cfg.DialTimeout = 0
          /\ nres.env = ProbeEnv(TRUE, FALSE, 0, 200)) =>
          (~nres.out.client.nil /\ nres.out.err = NilErr)

\* an Options literal with the zero DialTimeout and a healthy server
C27_Witness ==
    /\ cfg.nil
    /\ ProbeIssued
    /\ opts.DialTimeout = 0
    /\ nres.env = ProbeEnv(TRUE, FALSE, 0, 200)
    /\ nres.out.client.nil
    /\ nres.out.err = ErrorfWrap("failed to connect to elasticsearch",
                                  Errorf("context deadline exceeded"))

----------------------------------------------------------------------------
(* Claims about the fields of Options the constructor does not read, checked *)
(* under SpecConfig                                                          *)

\* the options with other values of EnableTLS, CACert, ReadTimeout and WriteTimeout
Variants(o) == {WithUnread(o, u) : u \in Unread}

----------------------------------------------------------------------------
(* Claims about Bulk *)

\* the bodies a server may send with an answer to a bulk request
AnswerBodies == {e.body : e \in ServerEnvs \cup BulkEnvs}

\* C29: Bulk never reads the body of the response; it returns nil and writes the
\* info record exactly when the transport did not fail and the status is no error
\* status, whatever the body is, also when the body reports failed items; every
\* error it returns is that of the transport or of an error status.
C29_BulkStatusOnly ==
    last.op = "Bulk" =>
        /\ Len(last.out.reqs) = 1
        /\ Occurs(last.out.events, "Decode") = 0
        /\ last.out.err = NilErr <=> Answered(last)
        /\ last.out.err # NilErr => (TransportFailed(last) \/ GotErrorStatus(last))
        /\ Answered(last) =>
              /\ Len(last.out.log) = 1
              /\ last.out.log[1].level = "info"
              /\ \A b \in AnswerBodies :
                    Bulk(client, Background, last.in.body.text,
                         Responds(last.in.env.status, b)) = last.out

\* a bulk request answered with 200 and a body that reports failed items
C29_Witness ==
    /\ last.op = "Bulk"
    /\ last.in.env = Responds(200, ItemErrorsBody)
    /\ last.out.err = NilErr
    /\ last.out.log[1].level = "info"

----------------------------------------------------------------------------
(* Claims about raw payloads *)

\* the last call was handed a string or a byte slice as its body
RawBody(l) == l.in.body.kind \in {"string", "bytes"}

\* Index sends a raw payload as it is, without a serialization step
IndexSendsRaw ==
    (last.op = "Index" /\ RawBody(last)) =>
        /\ Len(last.out.reqs) = 1
        /\ Payload(last) = last.in.body.text
        /\ Occurs(last.out.events, "json.Marshal") = 0
        /\ last.out.err.msg \notin SerializationErrors

\* Update returned the error of the envelope and sent nothing
EnvelopeFailed(l) ==
    /\ l.out.err.msg = "failed to marshal update body"
    /\ l.out.reqs = <<>>
    /\ Occurs(l.out.events, "req.Do") = 0

\* C30 as stated: Index sends a raw payload as it is; Update returns a local error
\* and sends nothing for every raw payload that is not valid JSON, an empty one
\* included, and sends the payload under "doc" otherwise.
C30_UpdateRejectsEveryInvalidRaw ==
    /\ IndexSendsRaw
    /\ (last.op = "Update" /\ RawBody(last)) =>
          IF ValidJSON(last.in.body.text)
          THEN Len(last.out.reqs) = 1 /\ DocSent(last) = last.in.body.text
          ELSE EnvelopeFailed(last)

\* C30 (amended): as stated, except for a nil byte slice, which Update writes as
\* null under "doc" and sends.
C30_RawPayloads ==
    /\ IndexSendsRaw
    /\ (last.op = "Update" /\ RawBody(last)) =>
          IF last.in.body.nilBytes
          THEN /\ Len(last.out.reqs) = 1
               /\ Payload(last) = <<LBrace, StrT("doc"), Colon, Null, RBrace>>
          ELSE IF ValidJSON(last.in.body.text)
          THEN Len(last.out.reqs) = 1 /\ DocSent(last) = last.in.body.text
          ELSE EnvelopeFailed(last)

\* Update handed a string that is not JSON
C30_Witness ==
    /\ last.op = "Update"
    /\ last.in.body = StringBody(<<Junk>>)
    /\ EnvelopeFailed(last)

====
